---- MODULE Spec2Model ----
(***************************************************************************)
(* The desktop relay of android-discord-rich-presence                      *)
(* (desktop-app/index.js; the Electron build's server.js is the same code  *)
(* with another port): an Express server on a single-threaded event loop   *)
(* that owns one discord-rpc client at a time.                             *)
(*                                                                         *)
(* One action is one turn of the event loop: the arrival of an HTTP        *)
(* request (the handler runs up to its first suspension), a timer          *)
(* callback, or an SDK event together with the promise continuations it    *)
(* releases (microtasks run before the next turn).                         *)
(*                                                                         *)
(* The discord-rpc SDK is an external collaborator.  Its contract here:    *)
(* every login ends in exactly one of 'ready', 'error' or a rejected       *)
(* login promise; setActivity/clearActivity calls on one client are        *)
(* answered in call order, each with success or failure; destroy() closes  *)
(* the connection, rejects what is still pending on it and removes the     *)
(* activity the connection displayed.                                      *)
(***************************************************************************)
EXTENDS Integers, Sequences, FiniteSets, TLC

\* ---------------------------------------------------------------- bounds
MaxRequests   == 3      \* HTTP requests received in one run
MaxTime       == 91000  \* the clock stops advancing here (ms)
BurstRequests == 4      \* the same two for a burst of requests that is over
BurstTime     == 1000   \*   before the first sweep tick can fall due
MaxClients    == 3      \* RPC.Client objects created in one run
MaxRetries    == 2      \* 500 ms retry timers armed in one run
MaxOverlap    == 2      \* reporter calls in flight at the same time
MaxCalls      == 3      \* reporter calls started in one run
MobileMaxTime == 2000   \* the reporter's clock stops advancing here (ms)
MaxTransportCalls  == 2    \* direct transport calls in flight at the same time
MaxTransportStarts == 3    \* direct transport calls made in one run
TransportMaxTime   == 2000 \* the clock of those runs stops advancing here (ms)

\* ------------------------------------------------------ program constants
UPDATE_TIMEOUT == 60000
SweepInterval  == 30000
RetryDelay     == 500

\* -------------------------------------------------------- value encodings
NullTok  == "<null>"            \* marks JS null / undefined
NoString == <<NullTok>>         \* a string-valued field that is null / absent
NoClient == 0                   \* rpc === null
NoTime   == -1                  \* lastUpdateTime === null, timer not armed
NoReq    == 0

\* Slots for HTTP requests in flight, and handles of RPC.Client objects.
ReqIds    == 1..BurstRequests
ClientIds == 1..MaxClients

\* Request bodies the mobile reporter (or anyone on the LAN) can post:
\* {displayName, packageName, clientId}.
Body(displayName, packageName, clientId) ==
  [displayName |-> displayName, packageName |-> packageName,
   clientId |-> clientId]

Bodies ==
  { Body("Maps", "com.maps", <<"X">>),
    Body("Maps", "com.maps", <<"Y">>),
    Body("Maps", "com.maps", <<" ", "X", " ">>),
    Body("Maps", "com.maps", NoString),
    Body("Maps", "com.maps", <<>>),
    Body("Maps", "com.maps", <<" ">>),
    Body(NullTok, "com.maps", <<"X">>),
    Body("", "com.maps", <<"X">>),
    Body("null", "com.maps", <<"Y">>),
    Body("Maps", "unknown", <<"X">>),
    Body("Maps", "null", NoString) }

NoBody == Body(NullTok, NullTok, NoString)

VARIABLES
  rpc,                  \* the current RPC.Client (a ClientIds handle) or NoClient
  currentClientId,      \* clientId bound by the last 'ready', or NoString
  isConnecting,         \* login guard
  discordConnected,
  lastUpdateTime,       \* ms or NoTime
  isCleared,
  updateCheckInterval,  \* due time of the armed sweep interval, or NoTime
  now,                  \* Date.now()
  reqs,                 \* HTTP requests in flight: ReqIds -> request record
  served,               \* HTTP requests received so far
  horizon,              \* how far a run is followed: [requests, time]
  retries,              \* retry timers armed so far
  sdk,                  \* SDK side: ClientIds -> client record
  pending,              \* SDK calls not yet answered, in call order
  displayed,            \* the activity Discord shows: [client, details] or none
  sweepClears,          \* clearActivity calls the sweep made since the last
                        \*   /update-presence arrived
  lastOp,               \* what the last event-loop turn was and did
  \* the mobile reporter (App.js, DesktopRPC.js)
  lastUpdatedPackage,   \* App.js: package last tracked as active, or NullTok
  desktopIP,            \* DesktopRPC: base URL of the relay, or NoString
  isEnabled,            \* DesktopRPC
  lastUpdate,           \* DesktopRPC: start time of the last successful send
  lastPackageName,      \* DesktopRPC: package of the last successful send
  clientIds,            \* stored CLIENT_IDs: package -> id or NoString
  enabledApps,          \* stored toggles: package -> "unset", "on" or "off"
  ticks,                \* calls of updateNotificationWithForegroundApp in
                        \*   flight: TickIds -> call record
  started,              \* such calls started so far
  wire,                 \* history: the calls whose update request went out
                        \*   after the most recent clear request and is in
                        \*   flight, and whether such an update was delivered
  \* the foreground resolver (ForegroundAppModule.kt)
  events,               \* what queryEvents returns for the window, in the
                        \*   order the iterator yields it
  eventsThrow,          \* queryEvents throws instead
  appStates,            \* package -> last foreground time, in insertion order
  lastForegroundPackage,
  stats,                \* what queryUsageStats returned, if it was asked
  resolved,             \* what the promise resolved to, or NoResult
  \* the transport on its own (DesktopRPC.js)
  savedIP,              \* AsyncStorage '@desktop_ip', or NoString
  rpcCalls,             \* calls of DesktopRPC methods waiting for a response
  settled,              \* how the call that ended last ended
  rpcStarted,           \* such calls made so far
  clientIdTest          \* App.js: testingClientId, clientIdTestResult, the
                        \*   setActivity call testClientId awaits, the due
                        \*   time of its 1000 ms timer, and (history) what
                        \*   became of the test update

vars == <<rpc, currentClientId, isConnecting, discordConnected, lastUpdateTime,
          isCleared, updateCheckInterval, now, reqs, served, horizon, retries,
          sdk, pending, displayed, sweepClears, lastOp,
          lastUpdatedPackage, desktopIP, isEnabled, lastUpdate,
          lastPackageName, clientIds, enabledApps, ticks, started, wire,
          events, eventsThrow, appStates, lastForegroundPackage, stats,
          resolved, savedIP, rpcCalls, settled, rpcStarted, clientIdTest>>

\* The resolver's state, which no step of the relay or of App.js touches.
resolverVars == <<events, eventsThrow, appStates, lastForegroundPackage, stats,
                  resolved>>

\* What is kept about calls made to the transport directly.
transportVars == <<savedIP, rpcCalls, settled, rpcStarted, clientIdTest>>

relayVars == <<rpc, currentClientId, isConnecting, discordConnected>>

\* The reporter's state, which no step of the relay touches.
mobileVars == <<lastUpdatedPackage, desktopIP, isEnabled, lastUpdate,
                lastPackageName, clientIds, enabledApps, ticks, started,
                wire>>

\* The relay's state, which no step of the reporter touches.
desktopVars == <<rpc, currentClientId, isConnecting, discordConnected,
                 lastUpdateTime, isCleared, updateCheckInterval, reqs, served,
                 horizon, retries, sdk, pending, displayed, sweepClears>>

\* ------------------------------------------------------------- JS helpers
IsWhitespace(ch) == ch = " "

RECURSIVE TrimStart(_)
TrimStart(s) ==
  IF s # <<>> /\ IsWhitespace(Head(s)) THEN TrimStart(Tail(s)) ELSE s

RECURSIVE TrimEnd(_)
TrimEnd(s) ==
  IF s # <<>> /\ IsWhitespace(s[Len(s)])
    THEN TrimEnd(SubSeq(s, 1, Len(s) - 1))
    ELSE s

\* String.prototype.trim
Trim(s) == TrimEnd(TrimStart(s))

\* !x for a string-or-undefined value
Falsy(s) == s = NoString \/ s = <<>>
FalsyName(n) == n = NullTok \/ n = ""

\* (mutant) only the displayName is tested.
IsNullAppByName(displayName, packageName) ==
  FalsyName(displayName) \/ displayName = "null"

\* index.js:148  the "null or unknown app" test of /update-presence
IsNullApp(displayName, packageName) ==
  \/ FalsyName(displayName)
  \/ displayName = "null"
  \/ packageName = "unknown"
  \/ packageName = "null"

\* (mutant) the clientId is not trimmed before it is tested.
MissingClientIdUntrimmed(clientId) == Falsy(clientId)

\* index.js:162  !clientId || !clientId.trim()
MissingClientId(clientId) == Falsy(clientId) \/ Trim(clientId) = <<>>

\* ---------------------------------------------------------------- records
NoResponse == [status |-> 0, ok |-> FALSE, text |-> ""]
Json(ok, text) == [status |-> 200, ok |-> ok, text |-> text]
ErrorJson(status, text) == [status |-> status, ok |-> FALSE, text |-> text]

FreeReq == [pc |-> "free", clientId |-> NoString, displayName |-> NullTok,
            due |-> NoTime, client |-> NoClient]

NoSdkClient == [state |-> "none", clientId |-> NoString]

NoActivity == [client |-> NoClient, details |-> NullTok]

\* A turn of the event loop: which callback ran, for which request, with which
\* request body, the SDK calls it made, in order, and the HTTP response it sent.
Turn(op, r, body) ==
  [op |-> op, req |-> r, body |-> body, calls |-> <<>>, response |-> NoResponse]

TimerTurn(op, r) == Turn(op, r, NoBody)

Did(turn, calls, response) ==
  [turn EXCEPT !.calls = calls, !.response = response]

\* ---------------------------------------------- the reporter's values
\* Packages the usage events can name, and calls of
\* updateNotificationWithForegroundApp that can be in flight at once.
Packages == {"A", "B"}
TickIds  == 1..MaxOverlap

\* A call that is not running.
FreeTick == [pc |-> "free", packageName |-> NullTok, start |-> NoTime,
             sent |-> <<>>]

\* ---------------------------------------------- the resolver's values
\* A package name is the sequence of its dot-separated segments; the empty
\* sequence stands for a null package name.
NoPackage == <<>>

\* A call slot of the transport that is not in use, and no call ended yet.
FreeCall == [method |-> "none", request |-> "none", packageName |-> NullTok,
             start |-> NoTime]
\* No request has gone out yet.
NothingSent == [late |-> {}, delivered |-> FALSE]

NoOutcome == [method |-> "none", outcome |-> "none"]

\* App.js:273-274  useState(false), useState(null); no timer armed and no
\* test update made
NoTest == [testing |-> FALSE, result |-> NullTok, call |-> 0, due |-> NoTime,
           update |-> "none"]

\* The promise of getForegroundAppName has not resolved.
NoResult == [appName |-> NoPackage, packageName |-> NoPackage,
             method |-> "pending"]

\* ------------------------------------------------------------------- Init
Start ==
  /\ rpc = NoClient
  /\ currentClientId = NoString
  /\ isConnecting = FALSE
  /\ discordConnected = FALSE
  /\ lastUpdateTime = NoTime
  /\ isCleared = FALSE
  /\ updateCheckInterval = NoTime
  /\ now = 0
  /\ reqs = [r \in ReqIds |-> FreeReq]
  /\ served = 0
  /\ retries = 0
  /\ sdk = [c \in ClientIds |-> NoSdkClient]
  /\ pending = <<>>
  /\ displayed = NoActivity
  /\ sweepClears = 0
  /\ lastOp = TimerTurn("init", NoReq)
  /\ lastUpdatedPackage = NullTok
  /\ desktopIP = NoString
  /\ isEnabled = FALSE
  /\ lastUpdate = NoTime
  /\ lastPackageName = NullTok
  /\ clientIds = [p \in Packages |-> NoString]
  /\ enabledApps = [p \in Packages |-> "unset"]
  /\ ticks = [t \in TickIds |-> FreeTick]
  /\ started = 0
  /\ wire = NothingSent
  /\ appStates = <<>>
  /\ lastForegroundPackage = NoPackage
  /\ stats = <<>>
  /\ resolved = NoResult
  /\ savedIP = NoString
  /\ rpcCalls = [c \in 1..MaxTransportCalls |-> FreeCall]
  /\ settled = NoOutcome
  /\ rpcStarted = 0
  /\ clientIdTest = NoTest

Init ==
  /\ Start
  /\ horizon = [requests |-> MaxRequests, time |-> MaxTime]
  /\ events = <<>>
  /\ eventsThrow = FALSE

InitBurst ==
  /\ Start
  /\ horizon = [requests |-> BurstRequests, time |-> BurstTime]
  /\ events = <<>>
  /\ eventsThrow = FALSE

\* ------------------------------------------------------------ SDK (stub)
\* Handles are handed out in creation order.
NextClient == Cardinality({c \in ClientIds : sdk[c].state # "none"}) + 1

\* (mutant) destroy() forgotten: the old connection stays open.
DestroySkipped(s, c) == s

\* client.destroy(): the connection is closed.
Destroy(s, c) == [s EXCEPT ![c] = [state |-> "destroyed", clientId |-> NoString]]

\* new RPC.Client(...) followed by client.login({clientId})
NewClientLogin(s, c, clientId) ==
  [s EXCEPT ![c] = [state |-> "loggingIn", clientId |-> clientId]]

\* The activity shown by a connection goes away with the connection.
AfterDestroy(act, c) == IF act.client = c THEN NoActivity ELSE act

SdkCall(c, op, r, origin, details) ==
  [client |-> c, op |-> op, req |-> r, origin |-> origin, details |-> details]

\* Connections that exist on the SDK side: created and not closed or failed.
LiveClients == {c \in ClientIds : sdk[c].state \in {"loggingIn", "ready"}}
LoginsInFlight == {c \in ClientIds : sdk[c].state = "loggingIn"}

\* ------------------------------------------------------------ the relay
\* res.json(...): the request is answered and leaves the server.
Finish(r) == [reqs EXCEPT ![r] = FreeReq]

\* A request is served from the lowest free slot.
FreeSlot == CHOOSE r \in ReqIds :
              reqs[r].pc = "free" /\ \A q \in 1..(r - 1) : reqs[q].pc # "free"

\* (mutant) the cache-hit test never succeeds.
AlreadyConnectedNever(clientId) == FALSE

\* index.js:64  the cache-hit test of connectToDiscord
AlreadyConnected(clientId) ==
  discordConnected /\ currentClientId = clientId /\ rpc # NoClient

\* (mutant) the connecting guard is not consulted.
connectUnguarded(clientId) ==
  IF AlreadyConnected(clientId) THEN "resolve" ELSE "login"

\* (mutant) a caller that finds the guard free logs in without looking at the
\* session that is there.
connectUncached(clientId) ==
  IF isConnecting THEN "wait" ELSE "login"

\* (mutant) a session that is ready serves every caller, whatever clientId it
\* asked for.
connectAnyIdentity(clientId) ==
  IF discordConnected /\ rpc # NoClient THEN "resolve"
  ELSE IF isConnecting THEN "wait"
  ELSE "login"

\* index.js:61-115  the path one call of connectToDiscord takes
connectToDiscord(clientId) ==
  IF AlreadyConnected(clientId) THEN "resolve"
  ELSE IF isConnecting THEN "wait"
  ELSE "login"

\* index.js:177-198  the rest of /update-presence once the session is ensured;
\* connected/client are discordConnected and rpc as the handler reads them.
SetActivityOrFail(r, turn, madeCalls, connected, client, displayName) ==
  IF ~connected \/ client = NoClient
    THEN /\ reqs' = Finish(r)
         /\ pending' = pending
         /\ lastOp' = Did(turn, madeCalls, ErrorJson(503, "Discord not connected"))
    ELSE /\ reqs' = [reqs EXCEPT ![r] = [FreeReq EXCEPT !.pc = "awaitSet",
                                                        !.client = client]]
         /\ pending' = Append(pending,
                          SdkCall(client, "setActivity", r, "update", displayName))
         /\ lastOp' = Did(turn, Append(madeCalls, "setActivity"), NoResponse)

\* index.js:69-73  connecting: look again in 500 ms
WaitAndRetry(r, turn, clientId, displayName) ==
  /\ retries < MaxRetries
  /\ retries' = retries + 1
  /\ reqs' = [reqs EXCEPT ![r] = [FreeReq EXCEPT !.pc = "waitRetry",
                                                 !.clientId = clientId,
                                                 !.displayName = displayName,
                                                 !.due = now + RetryDelay]]
  /\ lastOp' = turn
  /\ UNCHANGED <<relayVars, sdk, pending, displayed>>

\* (mutant) the old client is dropped without marking the relay as not
\* connected.
ConnectedAfterDestroyKept(hadClient) == discordConnected

\* index.js:78-86  discordConnected = false where an old client is dropped
ConnectedAfterDestroy(hadClient) ==
  IF hadClient THEN FALSE ELSE discordConnected

\* index.js:75-113  take the guard, drop the old client, create and log in a
\* new one
StartLogin(r, turn, clientId, displayName) ==
  /\ NextClient <= MaxClients
  /\ isConnecting' = TRUE
  /\ rpc' = NextClient
  /\ discordConnected' = ConnectedAfterDestroy(rpc # NoClient)
  /\ sdk' = NewClientLogin(IF rpc # NoClient THEN Destroy(sdk, rpc) ELSE sdk,
                           NextClient, clientId)
  /\ displayed' = (IF rpc # NoClient THEN AfterDestroy(displayed, rpc)
                                      ELSE displayed)
  /\ reqs' = [reqs EXCEPT ![r] = [FreeReq EXCEPT !.pc = "awaitLogin",
                                                 !.clientId = clientId,
                                                 !.displayName = displayName,
                                                 !.client = NextClient]]
  /\ lastOp' = Did(turn, (IF rpc # NoClient THEN <<"destroy">> ELSE <<>>)
                           \o <<"new", "login">>, NoResponse)
  /\ UNCHANGED <<currentClientId, pending, retries>>

\* await connectToDiscord(clientId) and what follows it in the same turn
EnsureSession(r, turn, clientId, displayName) ==
  CASE connectToDiscord(clientId) = "resolve" ->
         /\ SetActivityOrFail(r, turn, <<>>, discordConnected, rpc, displayName)
         /\ UNCHANGED <<relayVars, sdk, displayed, retries>>
    [] connectToDiscord(clientId) = "wait" ->
         WaitAndRetry(r, turn, clientId, displayName)
    [] connectToDiscord(clientId) = "login" ->
         StartLogin(r, turn, clientId, displayName)

\* (mutant) the flag is reset only once the clientId has been accepted.
ClearedAfterUpdateIfUsable(clientId) ==
  IF MissingClientId(clientId) THEN isCleared ELSE FALSE

\* index.js:158-164  isCleared = false comes before the clientId is tested
ClearedAfterUpdate(clientId) == FALSE

\* index.js:140-199  POST /update-presence, up to its first suspension
UpdatePresence(r, body) ==
  LET turn == Turn("update", r, body)
      displayName == body.displayName
      packageName == body.packageName
      clientId == body.clientId
  IN
  /\ served < horizon.requests
  /\ r = FreeSlot
  /\ served' = served + 1
  /\ sweepClears' = 0
  /\ UNCHANGED <<mobileVars, resolverVars, transportVars>>
  /\ UNCHANGED <<now, updateCheckInterval, horizon>>
  /\ IF IsNullApp(displayName, packageName)
       THEN \* index.js:148-156
            /\ lastUpdateTime' = NoTime
            /\ IF ~isCleared /\ rpc # NoClient /\ discordConnected
                 THEN /\ pending' = Append(pending,
                             SdkCall(rpc, "clearActivity", NoReq, "update", NullTok))
                      /\ isCleared' = TRUE
                      /\ lastOp' = Did(turn, <<"clearActivity">>,
                                       Json(TRUE, "Cleared activity"))
                 ELSE /\ UNCHANGED <<pending, isCleared>>
                      /\ lastOp' = Did(turn, <<>>, Json(TRUE, "Cleared activity"))
            /\ UNCHANGED <<relayVars, reqs, retries, sdk, displayed>>
       ELSE /\ lastUpdateTime' = now
            /\ isCleared' = ClearedAfterUpdate(clientId)
            /\ IF MissingClientId(clientId)
                 THEN \* index.js:162-164
                      /\ lastOp' = Did(turn, <<>>, Json(FALSE, "CLIENT_ID required"))
                      /\ UNCHANGED <<relayVars, reqs, retries, sdk, pending,
                                     displayed>>
                 ELSE LET requiredClientId == Trim(clientId)
                      IN \* index.js:166-198
                      IF \/ currentClientId # requiredClientId
                         \/ ~discordConnected
                         \/ rpc = NoClient
                        THEN EnsureSession(r, turn, requiredClientId, displayName)
                        ELSE /\ SetActivityOrFail(r, turn, <<>>, discordConnected,
                                                  rpc, displayName)
                             /\ UNCHANGED <<relayVars, retries, sdk, displayed>>

\* index.js:71  the 500 ms timer of a caller that found the guard taken:
\* connectToDiscord again, and on resolution the handler goes on
RetryTimer(r) ==
  /\ reqs[r].pc = "waitRetry"
  /\ now >= reqs[r].due
  /\ EnsureSession(r, TimerTurn("retry", r), reqs[r].clientId,
                   reqs[r].displayName)
  /\ UNCHANGED <<mobileVars, resolverVars, transportVars>>
  /\ UNCHANGED <<lastUpdateTime, isCleared, updateCheckInterval, now, served,
                 horizon, sweepClears>>

\* index.js:239-270  startUpdateCheck(): (re)arm the 30 s interval
startUpdateCheck == now + SweepInterval

\* The request whose connectToDiscord call started the login of client c.
LoginOwner(c) ==
  CHOOSE r \in ReqIds : reqs[r].pc = "awaitLogin" /\ reqs[r].client = c

\* index.js:92-101  'ready': the login succeeded; the caller's handler goes on
\* at index.js:177 in the same turn
LoginReady(c) ==
  /\ sdk[c].state = "loggingIn"
  /\ sdk' = [sdk EXCEPT ![c].state = "ready"]
  /\ discordConnected' = TRUE
  /\ currentClientId' = sdk[c].clientId
  /\ isConnecting' = FALSE
  /\ updateCheckInterval' = startUpdateCheck
  /\ SetActivityOrFail(LoginOwner(c), TimerTurn("ready", LoginOwner(c)), <<>>,
                       TRUE, rpc, reqs[LoginOwner(c)].displayName)
  /\ UNCHANGED <<mobileVars, resolverVars, transportVars>>
  /\ UNCHANGED <<rpc, lastUpdateTime, isCleared, now, served, horizon, retries,
                 displayed, sweepClears>>

\* (mutant) a failed login leaves the guard taken.
LoginFailedGuardKept(c, how) ==
  /\ sdk[c].state = "loggingIn"
  /\ sdk' = [sdk EXCEPT ![c] = [state |-> "failed", clientId |-> NoString]]
  /\ reqs' = Finish(LoginOwner(c))
  /\ lastOp' = Did(TimerTurn(how, LoginOwner(c)), <<>>,
                   ErrorJson(503, "Failed to connect to Discord"))
  /\ UNCHANGED <<mobileVars, resolverVars, transportVars>>
  /\ UNCHANGED <<rpc, currentClientId, isConnecting, discordConnected,
                 lastUpdateTime, isCleared, updateCheckInterval, now, served,
                 horizon, retries, pending, displayed, sweepClears>>

\* index.js:104-113  the login failed, by an 'error' event or by the login
\* promise rejecting: release the guard, reject the caller (index.js:172-174)
LoginFailed(c, how) ==
  /\ sdk[c].state = "loggingIn"
  /\ sdk' = [sdk EXCEPT ![c] = [state |-> "failed", clientId |-> NoString]]
  /\ isConnecting' = FALSE
  /\ reqs' = Finish(LoginOwner(c))
  /\ lastOp' = Did(TimerTurn(how, LoginOwner(c)), <<>>,
                   ErrorJson(503, "Failed to connect to Discord"))
  /\ UNCHANGED <<mobileVars, resolverVars, transportVars>>
  /\ UNCHANGED <<rpc, currentClientId, discordConnected, lastUpdateTime,
                 isCleared, updateCheckInterval, now, served, horizon, retries,
                 pending, displayed, sweepClears>>

\* (mutant) every /clear-presence clears, whatever the flag says.
ClearAlways(cleared) == TRUE

\* index.js:208  "only clear once, then just wait"
ClearOnce(cleared) == ~cleared

\* (mutant) /clear-presence is refused only while no session was ever ready.
ClearRefusedIfNeverConnected == currentClientId = NoString

\* index.js:203-205  if (!discordConnected) return 503
ClearRefused == ~discordConnected

\* index.js:202-220  POST /clear-presence
ClearPresence(r) ==
  LET turn == TimerTurn("clear", r) IN
  /\ served < horizon.requests
  /\ r = FreeSlot
  /\ served' = served + 1
  /\ IF ClearRefused
       THEN /\ lastOp' = Did(turn, <<>>, ErrorJson(503, "Discord not connected"))
            /\ UNCHANGED <<lastUpdateTime, isCleared, pending, reqs>>
       ELSE IF ClearOnce(isCleared)
         THEN /\ lastUpdateTime' = NoTime
              /\ isCleared' = TRUE
              /\ pending' = Append(pending,
                              SdkCall(rpc, "clearActivity", r, "clear", NullTok))
              /\ reqs' = [reqs EXCEPT ![r] = [FreeReq EXCEPT !.pc = "awaitClear",
                                                             !.client = rpc]]
              /\ lastOp' = Did(turn, <<"clearActivity">>, NoResponse)
         ELSE /\ lastOp' = Did(turn, <<>>, Json(TRUE, "Already cleared"))
              /\ UNCHANGED <<lastUpdateTime, isCleared, pending, reqs>>
  /\ UNCHANGED <<mobileVars, resolverVars, transportVars>>
  /\ UNCHANGED <<relayVars, updateCheckInterval, now, horizon, retries, sdk,
                 displayed, sweepClears>>

\* (mutant) an update exactly UPDATE_TIMEOUT old is not stale yet.
StaleStrict(t, last) == t - last > UPDATE_TIMEOUT

\* (mutant) an update one sweep interval old is stale already.
StaleEarly(t, last) == t - last >= SweepInterval

\* index.js:256-259  Date.now() - lastUpdateTime >= UPDATE_TIMEOUT
Stale(t, last) == t - last >= UPDATE_TIMEOUT

\* index.js:246-269  one tick of the staleness sweep
SweepTick ==
  /\ updateCheckInterval # NoTime
  /\ now >= updateCheckInterval
  /\ updateCheckInterval' = now + SweepInterval
  /\ IF /\ discordConnected
        /\ lastUpdateTime # NoTime
        /\ Stale(now, lastUpdateTime)
        /\ ~isCleared
       THEN /\ pending' = Append(pending,
                            SdkCall(rpc, "clearActivity", NoReq, "sweep", NullTok))
            /\ sweepClears' = sweepClears + 1
            /\ lastOp' = Did(TimerTurn("sweep", NoReq), <<"clearActivity">>,
                             NoResponse)
       ELSE /\ pending' = pending
            /\ sweepClears' = sweepClears
            /\ lastOp' = TimerTurn("sweep", NoReq)
  /\ UNCHANGED <<mobileVars, resolverVars, transportVars>>
  /\ UNCHANGED <<relayVars, lastUpdateTime, isCleared, now, reqs, served,
                 horizon, retries, sdk, displayed>>

\* ------------------------------------------------- SDK answers to calls
Remove(seq, i) == SubSeq(seq, 1, i - 1) \o SubSeq(seq, i + 1, Len(seq))

\* Calls on one client are answered in the order they were made.
Answerable(i) ==
  /\ i \in 1..Len(pending)
  /\ \A j \in 1..(i - 1) : pending[j].client # pending[i].client

\* What Discord shows after a call succeeded.
Shown(call) ==
  IF call.op = "setActivity"
    THEN [client |-> call.client, details |-> call.details]
    ELSE NoActivity

\* The promise of pending[i] settles and its then/catch callbacks run:
\* index.js:192-198 (update), 151 (update with a null app), 212-216 (clear),
\* 263-266 (sweep)
SdkAnswer(i, ok) ==
  LET call == pending[i]
      turn == [TimerTurn(IF ok THEN "resolved" ELSE "rejected", call.req)
                 EXCEPT !.calls = <<call.origin, call.op>>]
  IN
  /\ Answerable(i)
  /\ ok => sdk[call.client].state = "ready"
  /\ pending' = Remove(pending, i)
  /\ displayed' = (IF ok THEN Shown(call) ELSE displayed)
  /\ CASE call.origin = "update" /\ call.op = "setActivity" ->
            /\ reqs' = Finish(call.req)
            /\ lastOp' = [turn EXCEPT !.response =
                             IF ok THEN Json(TRUE, "Presence updated")
                                   ELSE ErrorJson(500, "setActivity failed")]
            /\ UNCHANGED <<lastUpdateTime, isCleared>>
       [] call.origin = "update" /\ call.op = "clearActivity" ->
            /\ lastOp' = turn
            /\ UNCHANGED <<reqs, lastUpdateTime, isCleared>>
       [] call.origin = "clear" ->
            /\ reqs' = Finish(call.req)
            /\ lastOp' = [turn EXCEPT !.response =
                             IF ok THEN Json(TRUE, "Presence cleared")
                                   ELSE ErrorJson(500, "clearActivity failed")]
            /\ UNCHANGED <<lastUpdateTime, isCleared>>
       [] call.origin = "sweep" ->
            /\ isCleared' = (IF ok THEN TRUE ELSE isCleared)
            /\ lastUpdateTime' = (IF ok THEN NoTime ELSE lastUpdateTime)
            /\ lastOp' = turn
            /\ UNCHANGED reqs
  /\ UNCHANGED <<mobileVars, resolverVars, transportVars>>
  /\ UNCHANGED <<relayVars, updateCheckInterval, now, served, horizon, retries,
                 sdk, sweepClears>>

\* ------------------------------------------------------------------ time
\* Timers that are armed, by due time.
DueTimes ==
  {reqs[r].due : r \in {q \in ReqIds : reqs[q].pc = "waitRetry"}}
    \cup (IF updateCheckInterval # NoTime THEN {updateCheckInterval} ELSE {})

\* Time passes, up to the next timer that falls due.
Advance(t) ==
  /\ t > now
  /\ t <= horizon.time
  /\ \A due \in DueTimes : t <= due
  /\ now' = t
  /\ lastOp' = TimerTurn("advance", NoReq)
  /\ UNCHANGED <<mobileVars, resolverVars, transportVars>>
  /\ UNCHANGED <<relayVars, lastUpdateTime, isCleared, updateCheckInterval,
                 reqs, served, horizon, retries, sdk, pending, displayed,
                 sweepClears>>

Next ==
  \/ \E r \in ReqIds, body \in Bodies : UpdatePresence(r, body)
  \/ \E r \in ReqIds : RetryTimer(r)
  \/ \E c \in ClientIds : LoginReady(c)
  \/ \E c \in ClientIds : LoginFailed(c, "error")
  \/ \E c \in ClientIds : LoginFailed(c, "login rejected")
  \/ \E r \in ReqIds : ClearPresence(r)
  \/ SweepTick
  \/ \E i \in 1..Len(pending), ok \in BOOLEAN : SdkAnswer(i, ok)
  \/ \E t \in {now + SweepInterval} \cup DueTimes : Advance(t)

Spec == Init /\ [][Next]_vars

\* A burst of requests in the first second: no sweep tick falls due
\* (BurstTime < SweepInterval).
NextBurst ==
  \/ \E r \in ReqIds, body \in Bodies : UpdatePresence(r, body)
  \/ \E r \in ReqIds : RetryTimer(r)
  \/ \E c \in ClientIds : LoginReady(c)
  \/ \E c \in ClientIds : LoginFailed(c, "error")
  \/ \E c \in ClientIds : LoginFailed(c, "login rejected")
  \/ \E r \in ReqIds : ClearPresence(r)
  \/ \E i \in 1..Len(pending), ok \in BOOLEAN : SdkAnswer(i, ok)
  \/ \E t \in DueTimes : Advance(t)

SpecBurst == InitBurst /\ [][NextBurst]_vars

\* ------------------------------------------- connectToDiscord on its own
\* Calls of connectToDiscord, followed from the call to the settling of its
\* promise, with no bound on how many are made in a run: a slot and a
\* handle are used again once the call or the connection they stood for is
\* gone, and the 500 ms timers are followed without the clock.

\* The clientIds connectToDiscord is called with (trimmed by the handler).
ConnectIds == {<<"X">>, <<"Y">>}

\* How the promise of a call settled, in the turn's record.
Promise(outcome) == [status |-> 0, ok |-> outcome = "resolved", text |-> outcome]

\* A handle for new RPC.Client(...): one that stands for no open connection.
FreeHandle == CHOOSE c \in ClientIds : sdk[c].state \notin {"loggingIn", "ready"}

\* index.js:61-115  one run of the body of connectToDiscord(clientId) for the
\* caller in slot r
Connect(r, turn, clientId) ==
  CASE connectToDiscord(clientId) = "resolve" ->
         \* index.js:64-67
         /\ reqs' = Finish(r)
         /\ lastOp' = Did(turn, <<>>, Promise("resolved"))
         /\ UNCHANGED <<relayVars, sdk, displayed>>
    [] connectToDiscord(clientId) = "wait" ->
         \* index.js:70-73
         /\ reqs' = [reqs EXCEPT ![r] = [FreeReq EXCEPT !.pc = "waitRetry",
                                                        !.clientId = clientId]]
         /\ lastOp' = turn
         /\ UNCHANGED <<relayVars, sdk, displayed>>
    [] connectToDiscord(clientId) = "login" ->
         \* index.js:75-113
         /\ isConnecting' = TRUE
         /\ rpc' = FreeHandle
         /\ discordConnected' = ConnectedAfterDestroy(rpc # NoClient)
         /\ sdk' = NewClientLogin(IF rpc # NoClient THEN Destroy(sdk, rpc)
                                                    ELSE sdk,
                                  FreeHandle, clientId)
         /\ displayed' = (IF rpc # NoClient THEN AfterDestroy(displayed, rpc)
                                             ELSE displayed)
         /\ reqs' = [reqs EXCEPT ![r] = [FreeReq EXCEPT !.pc = "awaitLogin",
                                                        !.clientId = clientId,
                                                        !.client = FreeHandle]]
         /\ lastOp' = Did(turn, (IF rpc # NoClient THEN <<"destroy">> ELSE <<>>)
                                  \o <<"new", "login">>, NoResponse)
         /\ UNCHANGED currentClientId

\* What a step of connectToDiscord leaves alone.
ConnectFrame ==
  /\ UNCHANGED <<mobileVars, resolverVars, transportVars>>
  /\ UNCHANGED <<lastUpdateTime, isCleared, now, served, horizon, retries,
                 pending, sweepClears>>

\* index.js:170  a handler calls connectToDiscord(requiredClientId)
ConnectCall(r, clientId) ==
  /\ reqs[r].pc = "free"
  /\ \A q \in 1..(r - 1) : reqs[q].pc # "free"
  /\ Connect(r, Turn("connect", r, Body(NullTok, NullTok, clientId)), clientId)
  /\ UNCHANGED updateCheckInterval
  /\ ConnectFrame

\* index.js:71  the 500 ms timer fires: connectToDiscord again, and the
\* waiting promise settles as the new one does
ConnectRetry(r) ==
  /\ reqs[r].pc = "waitRetry"
  /\ Connect(r, TimerTurn("retry", r), reqs[r].clientId)
  /\ UNCHANGED updateCheckInterval
  /\ ConnectFrame

\* index.js:92-101  'ready': the promise of the caller that logged in resolves
ConnectReady(c) ==
  /\ sdk[c].state = "loggingIn"
  /\ sdk' = [sdk EXCEPT ![c].state = "ready"]
  /\ discordConnected' = TRUE
  /\ currentClientId' = sdk[c].clientId
  /\ isConnecting' = FALSE
  /\ updateCheckInterval' = startUpdateCheck
  /\ reqs' = Finish(LoginOwner(c))
  /\ lastOp' = Did(TimerTurn("ready", LoginOwner(c)), <<>>, Promise("resolved"))
  /\ UNCHANGED <<rpc, displayed>>
  /\ ConnectFrame

\* index.js:104-113  'error', or the login promise rejecting: the guard is
\* released and the promise of the caller that logged in rejects
ConnectFailed(c, how) ==
  /\ sdk[c].state = "loggingIn"
  /\ sdk' = [sdk EXCEPT ![c] = [state |-> "failed", clientId |-> NoString]]
  /\ isConnecting' = FALSE
  /\ reqs' = Finish(LoginOwner(c))
  /\ lastOp' = Did(TimerTurn(how, LoginOwner(c)), <<>>, Promise("rejected"))
  /\ UNCHANGED <<rpc, currentClientId, discordConnected, updateCheckInterval,
                 displayed>>
  /\ ConnectFrame

NextConnect ==
  \/ \E r \in ReqIds, clientId \in ConnectIds : ConnectCall(r, clientId)
  \/ \E r \in ReqIds : ConnectRetry(r)
  \/ \E c \in ClientIds : ConnectReady(c)
  \/ \E c \in ClientIds : ConnectFailed(c, "error")
  \/ \E c \in ClientIds : ConnectFailed(c, "login rejected")

\* Every login the SDK was handed ends, by 'ready' or by a failure, and
\* every timer that is armed fires.  Nothing is assumed about when, or
\* whether, further calls are made.
ConnectFairness ==
  /\ \A c \in ClientIds :
       WF_vars(ConnectReady(c) \/ ConnectFailed(c, "error")
                 \/ ConnectFailed(c, "login rejected"))
  /\ \A r \in ReqIds : WF_vars(ConnectRetry(r))

SpecConnect == Init /\ [][NextConnect]_vars /\ ConnectFairness

TypeOK ==
  /\ rpc \in ClientIds \cup {NoClient}
  /\ isConnecting \in BOOLEAN
  /\ discordConnected \in BOOLEAN
  /\ isCleared \in BOOLEAN
  /\ now \in 0..MaxTime
  /\ lastUpdateTime = NoTime \/ lastUpdateTime \in 0..MaxTime
  /\ discordConnected => rpc # NoClient

\* ================================================== the mobile reporter
\* App.js polls the foreground application once a second and reports it to
\* the relay through DesktopRPC.  A call of
\* updateNotificationWithForegroundApp suspends at each HTTP request it makes
\* (fetch, aborted after 3 s), so calls started by later ticks, AppState
\* events and the configuration handlers of the UI run in between.  Reads of
\* AsyncStorage and of the native module settle at once and are part of the
\* turn that makes them.
updateThrottle == 2000
TickInterval   == 1000

\* DesktopRPC.js:222-224  get isConnected()
isConnected == isEnabled /\ desktopIP # NoString

\* (mutant) the throttle does not look at the package.
ThrottledAnyPackage(packageName, t) ==
  lastUpdate # NoTime /\ t - lastUpdate < updateThrottle

\* (mutant) there is no throttle.
ThrottledNever(packageName, t) == FALSE

\* DesktopRPC.js:100-103  the throttle of setActivity.  Date.now() is never 0,
\* so "this.lastUpdate &&" tests that a send has succeeded before.
Throttled(packageName, t) ==
  /\ lastPackageName = packageName
  /\ lastUpdate # NoTime
  /\ t - lastUpdate < updateThrottle

\* App.js:86-94
getClientIdForPackage(packageName) == clientIds[packageName]


\* App.js:48-66
isAppEnabled(packageName) ==
  IF getClientIdForPackage(packageName) # NoString
    THEN enabledApps[packageName] = "on"
    ELSE FALSE

\* What ForegroundAppModule.getForegroundAppName resolves with, split at
\* "|": appName|packageName|method|debugInfo, or the bare "null".
Results ==
  { <<"Maps", "A", "events-state", "">>,
    <<"Chat", "B", "events-state", "">>,
    <<"null", "null", "events-none", "">>,
    <<"null">> }

\* App.js:142-144  parts[i] || fallback
Field(parts, i, fallback) ==
  IF i <= Len(parts) /\ parts[i] # "" THEN parts[i] ELSE fallback

\* (mutant) only a missing or "null" package name counts.
MobileIsNullAppByPackage(appName, packageName) ==
  packageName = "" \/ packageName = "null"

\* App.js:148  isNullApp
MobileIsNullApp(appName, packageName) ==
  \/ appName = "" \/ appName = "null"
  \/ packageName = "" \/ packageName = "null" \/ packageName = "unknown"

\* A call is run in the lowest free slot.
FreeTickSlot(t) ==
  ticks[t].pc = "free" /\ \A q \in 1..(t - 1) : ticks[q].pc # "free"

TickDone(t) == [ticks EXCEPT ![t] = FreeTick]

\* DesktopRPC.js:149-171  clearActivity(): POST /clear-presence unless the
\* transport is off; the caller goes on at pc when the request has settled.
SendClear(t, turn, pc, packageName) ==
  IF isEnabled /\ desktopIP # NoString
    THEN /\ ticks' = [ticks EXCEPT ![t] = [pc |-> pc, packageName |-> packageName,
                                           start |-> NoTime, sent |-> <<"clear">>]]
         /\ lastOp' = Did(turn, <<"clear">>, NoResponse)
         /\ wire' = NothingSent
    ELSE /\ ticks' = TickDone(t)
         /\ lastOp' = turn
         /\ UNCHANGED wire

\* (mutant) the tracked package is set only when a request went out.
TrackAfterUpdateIfSent(sentNow) == sentNow

\* App.js:201-203  lastUpdatedPackage = packageName follows the await of
\* updateDiscordRPC whatever that call did.
TrackAfterUpdate(sentNow) == TRUE

\* App.js:197-205, 97-112 and DesktopRPC.js:94-117  the update of the
\* resolved application, up to the request
SendUpdate(t, turn, packageName) ==
  IF ~isConnected
    THEN /\ ticks' = TickDone(t)
         /\ lastOp' = turn
         /\ UNCHANGED <<lastUpdatedPackage, wire>>
    ELSE IF /\ getClientIdForPackage(packageName) # NoString
            /\ ~Throttled(packageName, now)
      THEN /\ ticks' = [ticks EXCEPT ![t] =
                          [pc |-> "updating", packageName |-> packageName,
                           start |-> now,
                           sent |-> Append(ticks[t].sent, "update")]]
           /\ lastOp' = Did(turn, <<"update">>, NoResponse)
           /\ wire' = [wire EXCEPT !.late = @ \cup {t}]
           /\ UNCHANGED lastUpdatedPackage
      ELSE /\ ticks' = TickDone(t)
           /\ lastOp' = turn
           /\ UNCHANGED wire
           /\ lastUpdatedPackage' =
                (IF TrackAfterUpdate(FALSE) THEN packageName
                                            ELSE lastUpdatedPackage)

\* (mutant) a change of application is not noticed.
SwitchedFromNever(tracked, packageName) == FALSE

\* App.js:190  lastUpdatedPackage && lastUpdatedPackage !== packageName
SwitchedFrom(tracked, packageName) ==
  tracked # NullTok /\ tracked # packageName

\* App.js:136-222  updateNotificationWithForegroundApp(true, ...), up to its
\* first request
updateNotificationWithForegroundApp(t, result) ==
  LET appName == Field(result, 1, "null")
      packageName == Field(result, 2, "unknown")
      turn == Turn("tick", t,
                   Body(appName, packageName,
                        IF packageName \in Packages
                          THEN getClientIdForPackage(packageName)
                          ELSE NoString))
  IN
  /\ started < MaxCalls
  /\ FreeTickSlot(t)
  /\ started' = started + 1
  /\ IF MobileIsNullApp(appName, packageName) \/ ~isAppEnabled(packageName)
       THEN \* App.js:150-158 and 206-215
            /\ IF lastUpdatedPackage # NullTok /\ isConnected
                 THEN SendClear(t, turn, "clearThenReset", packageName)
                 ELSE /\ ticks' = TickDone(t)
                      /\ lastOp' = turn
                      /\ UNCHANGED wire
            /\ UNCHANGED lastUpdatedPackage
       ELSE \* App.js:176-205
            IF SwitchedFrom(lastUpdatedPackage, packageName) /\ isConnected
              THEN /\ SendClear(t, turn, "clearThenUpdate", packageName)
                   /\ UNCHANGED lastUpdatedPackage
              ELSE SendUpdate(t, turn, packageName)
  /\ UNCHANGED <<desktopIP, isEnabled, lastUpdate, lastPackageName, clientIds,
                 enabledApps, now>>
  /\ UNCHANGED <<desktopVars, resolverVars, transportVars>>

\* App.js:425-430  AppState 'inactive': clear, then forget the tracked package
AppStateInactive(t) ==
  LET turn == TimerTurn("inactive", t) IN
  /\ started < MaxCalls
  /\ FreeTickSlot(t)
  /\ started' = started + 1
  /\ IF isConnected
       THEN SendClear(t, turn, "clearThenReset", NullTok)
       ELSE /\ ticks' = TickDone(t)
            /\ lastOp' = turn
            /\ UNCHANGED wire
  /\ UNCHANGED <<lastUpdatedPackage, desktopIP, isEnabled, lastUpdate,
                 lastPackageName, clientIds, enabledApps, now>>
  /\ UNCHANGED <<desktopVars, resolverVars, transportVars>>

\* (mutant) the tracked package survives the clear.
AfterClearKept(tracked) == tracked

\* App.js:156, 214, 429  lastUpdatedPackage = null
AfterClear(tracked) == NullTok

\* The /clear-presence request of call t has settled (answered, failed or
\* aborted: clearActivity swallows the difference) and the call goes on.
ClearActivityDone(t) ==
  LET turn == TimerTurn("cleared", t) IN
  /\ ticks[t].pc \in {"clearThenReset", "clearThenUpdate"}
  /\ IF ticks[t].pc = "clearThenReset"
       THEN /\ lastUpdatedPackage' = AfterClear(lastUpdatedPackage)
            /\ ticks' = TickDone(t)
            /\ lastOp' = turn
            /\ UNCHANGED wire
       ELSE SendUpdate(t, turn, ticks[t].packageName)
  /\ UNCHANGED <<desktopIP, isEnabled, lastUpdate, lastPackageName, clientIds,
                 enabledApps, started, now>>
  /\ UNCHANGED <<desktopVars, resolverVars, transportVars>>

\* DesktopRPC.js:134-141 and App.js:201-203  the /update-presence request of
\* call t has settled: a success is remembered by the throttle, and the
\* package becomes the tracked one either way.
SetActivityDone(t, ok) ==
  /\ ticks[t].pc = "updating"
  /\ lastUpdate' = (IF ok THEN ticks[t].start ELSE lastUpdate)
  /\ lastPackageName' = (IF ok THEN ticks[t].packageName ELSE lastPackageName)
  /\ lastUpdatedPackage' =
       (IF TrackAfterUpdate(TRUE) THEN ticks[t].packageName
                                  ELSE lastUpdatedPackage)
  /\ ticks' = TickDone(t)
  /\ wire' = [late |-> wire.late \ {t},
              delivered |-> wire.delivered \/ (ok /\ t \in wire.late)]
  /\ lastOp' = TimerTurn(IF ok THEN "sent" ELSE "send failed", t)
  /\ UNCHANGED <<desktopIP, isEnabled, clientIds, enabledApps, started, now>>
  /\ UNCHANGED <<desktopVars, resolverVars, transportVars>>

\* What the user can type as a CLIENT_ID in the edit dialog.
ClientIdInputs == {<<>>, <<" ">>, <<"X">>, <<" ", "X", " ">>}

\* (mutant) removing the CLIENT_ID leaves the toggle as it is.
EnabledAfterSaveKept(packageName, hadClientId, hasClientId) == enabledApps

\* App.js:578-583  removing the CLIENT_ID deletes the toggle
EnabledAfterSave(packageName, hadClientId, hasClientId) ==
  IF ~hasClientId /\ hadClientId
    THEN [enabledApps EXCEPT ![packageName] = "unset"]
    ELSE enabledApps

\* App.js:557-602  saveCustomName, for the package being edited
saveCustomName(editingPackage, editClientId) ==
  LET hadClientId == clientIds[editingPackage] # NoString
      hasClientId == Trim(editClientId) # <<>>
  IN
  /\ clientIds' = [clientIds EXCEPT ![editingPackage] =
                     IF hasClientId THEN Trim(editClientId) ELSE NoString]
  /\ enabledApps' = EnabledAfterSave(editingPackage, hadClientId, hasClientId)
  /\ lastOp' = TimerTurn("save", NoReq)
  /\ UNCHANGED <<wire, lastUpdatedPackage, desktopIP, isEnabled, lastUpdate,
                 lastPackageName, ticks, started, now>>
  /\ UNCHANGED <<desktopVars, resolverVars, transportVars>>

\* App.js:620-641  toggleAppEnabled
toggleAppEnabled(packageName) ==
  /\ IF clientIds[packageName] = NoString
       THEN UNCHANGED enabledApps
       ELSE enabledApps' =
              [enabledApps EXCEPT ![packageName] =
                 IF enabledApps[packageName] = "on" THEN "off" ELSE "on"]
  /\ lastOp' = TimerTurn("toggle", NoReq)
  /\ UNCHANGED <<wire, lastUpdatedPackage, desktopIP, isEnabled, lastUpdate,
                 lastPackageName, clientIds, ticks, started, now>>
  /\ UNCHANGED <<desktopVars, resolverVars, transportVars>>

\* DesktopRPC.js:26-52  initialize(ipAddress) with a usable address
initialize ==
  /\ desktopIP' = <<"http://", "relay:3000">>
  /\ isEnabled' = TRUE
  /\ lastOp' = TimerTurn("initialize", NoReq)
  /\ UNCHANGED <<wire, lastUpdatedPackage, lastUpdate, lastPackageName, clientIds,
                 enabledApps, ticks, started, now>>
  /\ UNCHANGED <<desktopVars, resolverVars, transportVars>>

\* DesktopRPC.js:176-184  disable(): isEnabled is dropped first, so the
\* clearActivity() that follows returns without a request
disable ==
  /\ isEnabled' = FALSE
  /\ lastOp' = TimerTurn("disable", NoReq)
  /\ UNCHANGED <<wire, lastUpdatedPackage, desktopIP, lastUpdate, lastPackageName,
                 clientIds, enabledApps, ticks, started, now>>
  /\ UNCHANGED <<desktopVars, resolverVars, transportVars>>

\* App.js:440-442  a second passes on the reporter's clock
MobileAdvance ==
  /\ now + TickInterval <= MobileMaxTime
  /\ now' = now + TickInterval
  /\ lastOp' = TimerTurn("advance", NoReq)
  /\ UNCHANGED <<mobileVars, resolverVars, transportVars>>
  /\ UNCHANGED <<desktopVars, resolverVars, transportVars>>

NextMobile ==
  \/ \E t \in TickIds, result \in Results :
       updateNotificationWithForegroundApp(t, result)
  \/ \E t \in TickIds : AppStateInactive(t)
  \/ \E t \in TickIds : ClearActivityDone(t)
  \/ \E t \in TickIds, ok \in BOOLEAN : SetActivityDone(t, ok)
  \/ \E p \in Packages, id \in ClientIdInputs : saveCustomName(p, id)
  \/ \E p \in Packages : toggleAppEnabled(p)
  \/ initialize
  \/ disable
  \/ MobileAdvance

SpecMobile == Init /\ [][NextMobile]_vars

\* =================================================== the foreground resolver
\* ForegroundAppModule.kt, getForegroundAppName.  One call is one step: it
\* asks UsageStatsManager for the events of the last 30 s, replays them,
\* and falls back on the usage stats when the events name no application.

MaxEvents == 3          \* events in a window
MaxStats  == 2          \* entries queryUsageStats returns

\* ForegroundAppModule.kt:143  System.currentTimeMillis() at the call
currentTime == 40000
EventWindow == 30000
RecentWindow == 5000

\* ForegroundAppModule.kt:64  reactApplicationContext.packageName
myPackageName == <<"com", "johnuberbacher", "androiddiscordrichpresence">>

\* ForegroundAppModule.kt:121-128
systemPackages ==
  { <<"com", "android", "systemui">>,
    <<"com", "google", "android", "gms">>,
    <<"com", "google", "android", "googlequicksearchbox">>,
    <<"com", "google", "android", "apps", "photos">>,
    <<"com", "google", "android", "apps", "docs">>,
    <<"com", "google", "android", "apps", "maps">> }

\* pkg.startsWith("<prefix>."): the segments of prefix, and more after them
StartsWith(pkg, prefix) ==
  /\ Len(pkg) > Len(prefix)
  /\ SubSeq(pkg, 1, Len(prefix)) = prefix

\* (mutant) the reporter's own package is not left out.
isSystemPackageButSelf(pkg) ==
  \/ pkg = NoPackage
  \/ StartsWith(pkg, <<"android">>)
  \/ StartsWith(pkg, <<"com", "android">>)
  \/ pkg \in systemPackages

\* ForegroundAppModule.kt:130-137
isSystemPackage(pkg) ==
  \/ pkg = NoPackage
  \/ pkg = myPackageName
  \/ StartsWith(pkg, <<"android">>)
  \/ StartsWith(pkg, <<"com", "android">>)
  \/ pkg \in systemPackages

\* The applications and other packages the usage events can name.
AppA == <<"com", "example", "a">>
AppB == <<"com", "example", "b">>
AppC == <<"com", "example", "c">>
EventPackages ==
  { AppA, AppB, AppC, myPackageName, NoPackage,
    <<"android", "providers">>,
    <<"com", "android", "settings">>,
    <<"com", "google", "android", "gms">> }

\* Time stamps inside the window [currentTime - 30000, currentTime].
WindowStart == currentTime - EventWindow
ForegroundTimes == {WindowStart + d : d \in {0, 5, 10}}
BackgroundTimes == {WindowStart + 5}

Events ==
  [eventType : {"MOVE_TO_FOREGROUND"}, packageName : EventPackages,
   timeStamp : ForegroundTimes]
  \cup
  [eventType : {"MOVE_TO_BACKGROUND"}, packageName : EventPackages,
   timeStamp : BackgroundTimes]

EventSeqs == UNION {[1..n -> Events] : n \in 0..MaxEvents}

\* What queryUsageStats can return: entries [packageName, lastTimeUsed],
\* older or younger than the 5 s threshold.
StatsEntries ==
  [packageName : {AppA, AppB, myPackageName},
   lastTimeUsed : {currentTime - RecentWindow - 1000, currentTime - 1000}]

StatsSeqs == UNION {[1..n -> StatsEntries] : n \in 0..MaxStats}

\* ForegroundAppModule.kt:67-118  getAppNameFromPackage: the label of the
\* package, or null when the package manager has none.  A string is kept as
\* the sequence of its pieces between '|' characters: A is labelled
\* "Maps", C is labelled "Chat|Pro", B has no label.
getAppNameFromPackage(pkg) ==
  IF pkg = AppA THEN <<"Maps">>
  ELSE IF pkg = AppC THEN <<"Chat", "Pro">>
  ELSE NoPackage

\* The package name as a string: its segments joined by dots.
RECURSIVE Dotted(_)
Dotted(pkg) ==
  IF Len(pkg) = 1 THEN pkg[1] ELSE pkg[1] \o "." \o Dotted(Tail(pkg))

\* mutableMapOf (a LinkedHashMap) as a sequence of entries in insertion
\* order: appStates[pkg] = value
Put(map, key, value) ==
  IF \E i \in 1..Len(map) : map[i].key = key
    THEN [i \in 1..Len(map) |->
            IF map[i].key = key THEN [key |-> key, value |-> value]
                                ELSE map[i]]
    ELSE Append(map, [key |-> key, value |-> value])

\* appStates.remove(pkg)
RemoveKey(map, key) == SelectSeq(map, LAMBDA e : e.key # key)

\* ForegroundAppModule.kt:157-178  the replay of the events from the i-th
\* on; st holds appStates, lastForegroundPackage and lastForegroundTime
RECURSIVE Replay(_, _, _)
Replay(evs, i, st) ==
  IF i > Len(evs) THEN st
  ELSE
    LET event == evs[i]
        pkg == event.packageName
        next ==
          IF pkg = NoPackage \/ isSystemPackage(pkg) THEN st
          ELSE IF event.eventType = "MOVE_TO_FOREGROUND"
            THEN [appStates |-> Put(st.appStates, pkg, event.timeStamp),
                  lastForegroundPackage |->
                    IF event.timeStamp > st.lastForegroundTime
                      THEN pkg ELSE st.lastForegroundPackage,
                  lastForegroundTime |->
                    IF event.timeStamp > st.lastForegroundTime
                      THEN event.timeStamp ELSE st.lastForegroundTime]
            ELSE [st EXCEPT !.appStates = RemoveKey(st.appStates, pkg)]
    IN Replay(evs, i + 1, next)

\* (mutant) the entry with the smallest value.
MinIndex(values) ==
  CHOOSE i \in 1..Len(values) :
    \A j \in 1..Len(values) :
      /\ values[j] >= values[i]
      /\ j < i => values[j] > values[i]

\* maxByOrNull on a non-empty list: the first entry with the largest value
MaxIndex(values) ==
  CHOOSE i \in 1..Len(values) :
    \A j \in 1..Len(values) :
      /\ values[j] <= values[i]
      /\ j < i => values[j] < values[i]

\* ForegroundAppModule.kt:186-195, 201-210, 258-267  the name to show: the
\* label, or the package name when there is no label
Named(pkg, method) ==
  IF getAppNameFromPackage(pkg) = NoPackage
    THEN [appName |-> <<Dotted(pkg)>>, packageName |-> pkg,
          method |-> method \o "-pkg"]
    ELSE [appName |-> getAppNameFromPackage(pkg), packageName |-> pkg,
          method |-> method]

\* Nothing was found: "null|null|<method>|..."
Unnamed(method) ==
  [appName |-> NoPackage, packageName |-> NoPackage, method |-> method]

\* (mutant) there is no fallback on the most recent MOVE_TO_FOREGROUND.
UseRecentNever(st) == FALSE

\* ForegroundAppModule.kt:199  appName == null && lastForegroundPackage != null
UseRecent(st) ==
  st.appStates = <<>> /\ st.lastForegroundPackage # NoPackage

\* (mutant) the most recent MOVE_TO_FOREGROUND is preferred to a package
\* that is still tracked.
FromEventsRecentFirst(st) ==
  IF st.lastForegroundPackage # NoPackage
    THEN Named(st.lastForegroundPackage, "events-recent")
    ELSE Unnamed("events-none")

\* ForegroundAppModule.kt:180-222  what the events path resolves to
FromEvents(st) ==
  IF st.appStates # <<>>
    THEN Named(st.appStates[MaxIndex([i \in 1..Len(st.appStates) |->
                                        st.appStates[i].value])].key,
               "events-state")
    ELSE IF UseRecent(st)
      THEN Named(st.lastForegroundPackage, "events-recent")
      ELSE Unnamed("events-none")

\* ForegroundAppModule.kt:230-274  the fallback on queryUsageStats; method
\* is what the events path left
FromStats(usage, method) ==
  LET filteredStats == SelectSeq(usage,
                         LAMBDA u : ~isSystemPackage(u.packageName))
      recentThreshold == currentTime - RecentWindow
      recentStats == SelectSeq(filteredStats,
                       LAMBDA u : u.lastTimeUsed >= recentThreshold)
      pool == IF recentStats # <<>> THEN recentStats ELSE filteredStats
  IN IF filteredStats = <<>>
       THEN Unnamed(method)
       ELSE Named(pool[MaxIndex([i \in 1..Len(pool) |->
                                   pool[i].lastTimeUsed])].packageName,
                  "stats")

\* ForegroundAppModule.kt:56-293  getForegroundAppName.  queryEvents either
\* yields the events of the window or throws (then only the stats are
\* asked); queryUsageStats yields a list or throws (then the promise
\* resolves to the bare "null").
getForegroundAppName ==
  /\ resolved = NoResult
  /\ LET eventsOk == ~eventsThrow
       IN
       LET none == [appStates |-> <<>>, lastForegroundPackage |-> NoPackage,
                    lastForegroundTime |-> 0]
           st == IF eventsOk THEN Replay(events, 1, none) ELSE none
           found == IF eventsOk THEN FromEvents(st) ELSE Unnamed("none")
       IN
       /\ appStates' = st.appStates
       /\ lastForegroundPackage' = st.lastForegroundPackage
       /\ IF found.packageName # NoPackage
            THEN /\ resolved' = found
                 /\ stats' = <<>>
            ELSE \/ \E usage \in StatsSeqs :
                      /\ stats' = usage
                      /\ resolved' = FromStats(usage, found.method)
                 \/ /\ stats' = <<>>
                    /\ resolved' = Unnamed("unavailable")
  /\ UNCHANGED <<events, eventsThrow, now, lastOp>>
  /\ UNCHANGED <<desktopVars, mobileVars, transportVars>>

\* ForegroundAppModule.kt:276-288 and App.js:141  the string the promise
\* resolves to, as result.split('|') sees it
ResultParts(res) ==
  IF res.method = "unavailable" THEN <<"null">>
  ELSE IF res.appName # NoPackage
    THEN res.appName \o <<Dotted(res.packageName), res.method, "debug">>
    ELSE <<"null", "null", res.method,
           IF res.method = "none" THEN "" ELSE "debug">>

InitResolver ==
  /\ Start
  /\ horizon = [requests |-> MaxRequests, time |-> MaxTime]
  /\ events \in EventSeqs
  /\ eventsThrow \in BOOLEAN

NextResolver == getForegroundAppName

SpecResolver == InitResolver /\ [][NextResolver]_vars

\* ====================================================== the transport alone
\* DesktopRPC.js, called method by method, as App.js (the poll loop, the
\* connect and disconnect buttons, testClientId, the 10 s connection check)
\* calls it.  A call runs up to its fetch in one turn and is resumed by
\* the answer; the AsyncStorage writes are part of the turn.

TransportCallIds == 1..MaxTransportCalls

\* What can be typed as the address of the relay, in tokens.
AddressInputs ==
  { <<>>, <<" ">>,
    <<"host:3000">>, <<" ", "host:3000", " ">>,
    <<"http://", "host:3000">>, <<" ", "http://", "host:3000">>,
    <<"https://", "host:3000">>,
    <<"Http://", "host:3000">> }

\* The arguments setActivity is called with.
DisplayNames == {"Maps", "null", ""}
PackageNames == {"A", "B", "unknown", "null"}

\* How a fetch ends: a 2xx response, another response, or a network error
\* or abort.
Answers == {"ok", "non2xx", "network"}

\* (mutant) a scheme that is present is kept.
NormalizeKeepScheme(ipAddress) ==
  LET ip == Trim(ipAddress)
  IN IF ip # <<>> /\ Head(ip) \in {"http://", "https://"}
       THEN ip ELSE <<"http://">> \o ip

\* DesktopRPC.js:31-37  strip one leading http:// or https://, then put
\* http:// in front unless the rest starts with a scheme again
Normalize(ipAddress) ==
  LET trimmed == Trim(ipAddress)
      ip == IF trimmed # <<>> /\ Head(trimmed) \in {"http://", "https://"}
              THEN Tail(trimmed) ELSE trimmed
  IN IF ip # <<>> /\ Head(ip) \in {"http://", "https://"}
       THEN ip ELSE <<"http://">> \o ip

\* A direct call takes the lowest free slot.
BeginCall(c) ==
  /\ rpcStarted < MaxTransportStarts
  /\ rpcCalls[c] = FreeCall
  /\ \A d \in TransportCallIds : d < c => rpcCalls[d] # FreeCall
  /\ rpcStarted' = rpcStarted + 1

\* The call waits for the response to its request.
Awaiting(c, method, request, packageName) ==
  /\ rpcCalls' = [rpcCalls EXCEPT ![c] =
                    [method |-> method, request |-> request,
                     packageName |-> packageName, start |-> now]]
  /\ settled' = NoOutcome

\* The call ends without a request.
EndsAtOnce(method, outcome) ==
  /\ settled' = [method |-> method, outcome |-> outcome]
  /\ UNCHANGED rpcCalls

\* The call ends on the answer to its request.
EndsOn(c, outcome) ==
  /\ settled' = [method |-> rpcCalls[c].method, outcome |-> outcome]
  /\ rpcCalls' = [rpcCalls EXCEPT ![c] = FreeCall]

\* The argument of initialize, as the turn's record keeps it (in the field
\* that holds token strings).
AddressArg(ipAddress) == Body(NullTok, NullTok, ipAddress)

\* DesktopRPC.js:26-52  initialize(ipAddress), up to the /health request of
\* the testConnection() it returns
initializeWith(c, ipAddress) ==
  /\ BeginCall(c)
  /\ IF Trim(ipAddress) = <<>>
       THEN /\ EndsAtOnce("initialize", "rejected")
            /\ lastOp' = Turn("initialize", c, AddressArg(ipAddress))
            /\ UNCHANGED <<desktopIP, isEnabled, savedIP>>
       ELSE /\ desktopIP' = Normalize(ipAddress)
            /\ isEnabled' = TRUE
            /\ savedIP' = Trim(ipAddress)
            /\ Awaiting(c, "initialize", "/health", NullTok)
            /\ lastOp' = Did(Turn("initialize", c, AddressArg(ipAddress)),
                             <<"health">>, NoResponse)
  /\ UNCHANGED <<wire, lastUpdatedPackage, lastUpdate, lastPackageName, clientIds,
                 enabledApps, ticks, started, now, clientIdTest>>
  /\ UNCHANGED <<desktopVars, resolverVars>>

\* DesktopRPC.js:57-70  testConnection(), up to its /health request
testConnection(c) ==
  /\ BeginCall(c)
  /\ IF desktopIP = NoString
       THEN /\ EndsAtOnce("testConnection", "rejected")
            /\ lastOp' = TimerTurn("testConnection", c)
       ELSE /\ Awaiting(c, "testConnection", "/health", NullTok)
            /\ lastOp' = Did(TimerTurn("testConnection", c), <<"health">>,
                             NoResponse)
  /\ UNCHANGED <<savedIP, now, clientIdTest>>
  /\ UNCHANGED <<desktopVars, mobileVars, resolverVars>>

\* DesktopRPC.js:72-85  the probe resolves on a 2xx response whose body
\* parses, and throws otherwise
ProbeOutcome(answer) == IF answer = "ok" THEN "resolved" ELSE "rejected"

\* (mutant) a failed probe undoes the isEnabled = true of initialize.
EnabledAfterProbeUndone(method, answer) ==
  IF method = "initialize" /\ answer # "ok" THEN FALSE ELSE isEnabled

\* DesktopRPC.js:38-51  initialize assigns isEnabled before the probe and
\* returns the probe's promise: no statement follows a failure
EnabledAfterProbe(method, answer) == isEnabled

\* DesktopRPC.js:70-85  the answer to a /health request
HealthSettles(c, answer) ==
  /\ rpcCalls[c].request = "/health"
  /\ EndsOn(c, ProbeOutcome(answer))
  /\ isEnabled' = EnabledAfterProbe(rpcCalls[c].method, answer)
  /\ lastOp' = TimerTurn("health " \o answer, c)
  /\ UNCHANGED <<wire, lastUpdatedPackage, desktopIP, lastUpdate,
                 lastPackageName, clientIds, enabledApps, ticks, started,
                 savedIP, rpcStarted, now, clientIdTest>>
  /\ UNCHANGED <<desktopVars, resolverVars>>

\* (mutant) setActivity tests its arguments as its earlier version did.
RoutesToClearIfUnknown(displayName, packageName) ==
  \/ displayName = "" \/ displayName = "null"
  \/ packageName = "unknown" \/ packageName = "null"

\* DesktopRPC.js:94-117  setActivity does not look at displayName or
\* packageName before it sends
RoutesToClear(displayName, packageName) == FALSE

\* DesktopRPC.js:94-132  setActivity(displayName, packageName, clientId),
\* up to its request
setActivity(c, displayName, packageName) ==
  /\ BeginCall(c)
  /\ IF ~isEnabled \/ desktopIP = NoString \/ Throttled(packageName, now)
       THEN /\ EndsAtOnce("setActivity", "resolved")
            /\ lastOp' = Turn("setActivity", c,
                              Body(displayName, packageName, NoString))
       ELSE IF RoutesToClear(displayName, packageName)
         THEN /\ Awaiting(c, "setActivity", "/clear-presence", packageName)
              /\ lastOp' = Did(Turn("setActivity", c,
                                    Body(displayName, packageName, NoString)),
                               <<"clear">>, NoResponse)
         ELSE /\ Awaiting(c, "setActivity", "/update-presence", packageName)
              /\ lastOp' = Did(Turn("setActivity", c,
                                    Body(displayName, packageName, NoString)),
                               <<"update">>, NoResponse)
  /\ UNCHANGED <<savedIP, now, clientIdTest>>
  /\ UNCHANGED <<desktopVars, mobileVars, resolverVars>>

\* DesktopRPC.js:149-171  clearActivity(), up to its request
clearActivity(c) ==
  /\ BeginCall(c)
  /\ IF ~isEnabled \/ desktopIP = NoString
       THEN /\ EndsAtOnce("clearActivity", "resolved")
            /\ lastOp' = TimerTurn("clearActivity", c)
       ELSE /\ Awaiting(c, "clearActivity", "/clear-presence", NullTok)
            /\ lastOp' = Did(TimerTurn("clearActivity", c), <<"clear">>,
                             NoResponse)
  /\ UNCHANGED <<savedIP, now, clientIdTest>>
  /\ UNCHANGED <<desktopVars, mobileVars, resolverVars>>

\* The test update the button sends.
testDisplayName == "Test Connection"

\* App.js:662  editingPackage || 'test'
testPackageName(editingPackage) ==
  IF editingPackage = NullTok THEN "test" ELSE editingPackage

\* App.js:655-656  the test is under way and shows no result
TestUnderWay(c) ==
  [testing |-> TRUE, result |-> NullTok, call |-> c, due |-> NoTime,
   update |-> "pending"]

\* App.js:664-674  what follows `await desktopRPC.setActivity(...)`: the
\* 1000 ms timer is armed when the call resolved, the catch block runs
\* when it threw
AfterTestUpdate(outcome, update) ==
  IF outcome = "resolved"
    THEN [testing |-> TRUE, result |-> NullTok, call |-> 0,
          due |-> now + 1000, update |-> update]
    ELSE [testing |-> FALSE, result |-> "error", call |-> 0,
          due |-> NoTime, update |-> update]

\* App.js:644-665  testClientId(), up to the request of its setActivity
\* call (DesktopRPC.js:94-132).  The button is disabled while a test is
\* under way (App.js:854).
testClientId(c, editingPackage, editClientId) ==
  LET turn == Turn("testClientId", c,
                   Body(testDisplayName, testPackageName(editingPackage),
                        Trim(editClientId)))
  IN /\ ~clientIdTest.testing
     /\ BeginCall(c)
     /\ IF Trim(editClientId) = <<>> \/ ~isConnected
          THEN /\ lastOp' = turn
               /\ UNCHANGED <<rpcCalls, settled, clientIdTest>>
          ELSE IF Throttled(testPackageName(editingPackage), now)
            THEN /\ EndsAtOnce("setActivity", "resolved")
                 /\ clientIdTest' = AfterTestUpdate("resolved", "throttled")
                 /\ lastOp' = turn
            ELSE /\ Awaiting(c, "setActivity", "/update-presence",
                             testPackageName(editingPackage))
                 /\ clientIdTest' = TestUnderWay(c)
                 /\ lastOp' = Did(turn, <<"update">>, NoResponse)
     /\ UNCHANGED <<savedIP, now>>
     /\ UNCHANGED <<desktopVars, mobileVars, resolverVars>>

\* App.js:666-670  the timer's callback
TestTimer ==
  /\ clientIdTest.due # NoTime
  /\ now >= clientIdTest.due
  /\ clientIdTest' = [clientIdTest EXCEPT !.testing = FALSE,
                                          !.result = "success",
                                          !.due = NoTime]
  /\ lastOp' = TimerTurn("test timer", NoReq)
  /\ UNCHANGED <<savedIP, rpcCalls, settled, rpcStarted, now>>
  /\ UNCHANGED <<desktopVars, mobileVars, resolverVars>>

\* (mutant) a failed send is thrown to the caller.
SendOutcomeThrown(answer) == IF answer = "ok" THEN "resolved" ELSE "rejected"

\* DesktopRPC.js:138-141 and 168-170  the catch blocks of setActivity and
\* clearActivity have no throw
SendOutcome(answer) == "resolved"

\* (mutant) the throttle is armed by every answer.
ThrottleAfterAny(answer, old, new) == new

\* DesktopRPC.js:130-136  lastUpdate and lastPackageName are assigned only
\* after a 2xx response
ThrottleAfter(answer, old, new) == IF answer = "ok" THEN new ELSE old

\* DesktopRPC.js:130-141 and 164-170  the answer to an /update-presence or
\* /clear-presence request
SendSettles(c, answer) ==
  /\ rpcCalls[c].request \in {"/update-presence", "/clear-presence"}
  /\ IF rpcCalls[c].request = "/update-presence"
       THEN /\ lastUpdate' = ThrottleAfter(answer, lastUpdate,
                                           rpcCalls[c].start)
            /\ lastPackageName' = ThrottleAfter(answer, lastPackageName,
                                                rpcCalls[c].packageName)
       ELSE UNCHANGED <<lastUpdate, lastPackageName>>
  /\ EndsOn(c, SendOutcome(answer))
  /\ clientIdTest' = IF clientIdTest.call = c
                       THEN AfterTestUpdate(SendOutcome(answer), answer)
                       ELSE clientIdTest
  /\ lastOp' = Turn("send " \o answer, c,
                    Body(NullTok, rpcCalls[c].packageName, NoString))
  /\ UNCHANGED <<wire, lastUpdatedPackage, desktopIP, isEnabled, clientIds,
                 enabledApps, ticks, started, savedIP, rpcStarted, now>>
  /\ UNCHANGED <<desktopVars, resolverVars>>

\* Time passes between calls.
TransportAdvance ==
  /\ now + TickInterval <= TransportMaxTime
  /\ now' = now + TickInterval
  /\ lastOp' = TimerTurn("advance", NoReq)
  /\ UNCHANGED <<desktopVars, mobileVars, resolverVars, transportVars>>

NextTransport ==
  \/ \E c \in TransportCallIds, a \in AddressInputs : initializeWith(c, a)
  \/ \E c \in TransportCallIds : testConnection(c)
  \/ \E c \in TransportCallIds, answer \in Answers : HealthSettles(c, answer)
  \/ \E c \in TransportCallIds, d \in DisplayNames, p \in PackageNames :
       setActivity(c, d, p)
  \/ \E c \in TransportCallIds : clearActivity(c)
  \/ \E c \in TransportCallIds, answer \in Answers : SendSettles(c, answer)
  \/ \E c \in TransportCallIds, p \in {NullTok, "A"}, id \in ClientIdInputs :
       testClientId(c, p, id)
  \/ TestTimer
  \/ disable
  \/ TransportAdvance

SpecTransport == Init /\ [][NextTransport]_vars

\* ================================================================ claims
\* Every step of Next records its turn in lastOp', so in the step formulas
\* below lastOp'.op tells which callback the step ran.

\* An /update-presence body that names an app and carries a usable clientId.
ValidBody(body) ==
  /\ ~IsNullApp(body.displayName, body.packageName)
  /\ ~MissingClientId(body.clientId)

\* A step in which connectToDiscord(clientId) is called for request r.
CallsConnect(r, clientId) ==
  \/ /\ lastOp'.op = "retry"
     /\ lastOp'.req = r
     /\ reqs[r].pc = "waitRetry"
     /\ clientId = reqs[r].clientId
  \/ /\ lastOp'.op = "update"
     /\ lastOp'.req = r
     /\ ValidBody(lastOp'.body)
     /\ clientId = Trim(lastOp'.body.clientId)
     /\ (currentClientId # clientId \/ ~discordConnected \/ rpc = NoClient)

\* ---- C1 ----------------------------------------------------------------
\* C1: the relay never holds two live SDK connections: the only connection
\* that can be live is the current rpc, the old one having been destroyed
\* before the new client was created.
C1_AtMostOneLiveConnection ==
  /\ Cardinality(LiveClients) <= 1
  /\ LiveClients \subseteq {rpc}
  /\ lastOp.calls = <<"new", "login">> => NextClient = 2

\* An identity switch: the Ready connection for one clientId was destroyed
\* and a client for another clientId is logging in.
C1_Witness ==
  /\ lastOp.calls = <<"destroy", "new", "login">>
  /\ currentClientId # NoString
  /\ rpc # NoClient
  /\ sdk[rpc].state = "loggingIn"
  /\ sdk[rpc].clientId # currentClientId
  /\ \E c \in ClientIds : sdk[c].state = "destroyed"

\* ---- C2 ----------------------------------------------------------------
LoginAttempts == {r \in ReqIds : reqs[r].pc = "awaitLogin"}

C2_Guarded ==
  /\ Cardinality(LoginAttempts) <= 1
  /\ Cardinality(LoginsInFlight) <= 1
  /\ isConnecting <=> LoginsInFlight # {}
  /\ \A r \in LoginAttempts : sdk[reqs[r].client].state = "loggingIn"

C2_Waits ==
  \A r \in ReqIds, id \in {<<"X">>, <<"Y">>} :
    (isConnecting /\ CallsConnect(r, id)) =>
      /\ sdk' = sdk
      /\ rpc' = rpc
      /\ lastOp'.calls = <<>>
      /\ reqs'[r].pc = "waitRetry"
      /\ reqs'[r].due = now + RetryDelay

\* C2: at most one SDK login is in flight: a connectToDiscord call made while
\* isConnecting is true starts no login and arms a 500 ms retry, whatever
\* the interleaving of requests and login outcomes.
C2_OneLoginInFlight == [](C2_Guarded) /\ [][C2_Waits]_vars

\* A caller for another identity has retried once and waits again while the
\* first caller's login is still in flight.
C2_Witness ==
  /\ isConnecting
  /\ lastOp.op = "retry"
  /\ reqs[lastOp.req].pc = "waitRetry"
  /\ reqs[lastOp.req].due = now + RetryDelay
  /\ \E r \in LoginAttempts : reqs[r].clientId # reqs[lastOp.req].clientId

\* ---- C3 ----------------------------------------------------------------
C3_CacheHit ==
  \A r \in ReqIds :
    ( /\ lastOp'.op = "retry"
      /\ lastOp'.req = r
      /\ discordConnected
      /\ rpc # NoClient
      /\ reqs[r].clientId = currentClientId ) =>
      /\ sdk' = sdk
      /\ rpc' = rpc
      /\ lastOp'.calls = <<"setActivity">>
      /\ reqs'[r].pc = "awaitSet"

\* C3: a caller that waited on the guard for the clientId the first caller
\* was logging in with resolves through the cache hit once that login is
\* ready: it performs no login of its own.
C3_SecondCallerNoLogin == [][C3_CacheHit]_vars

\* Two callers, one login: both requests have set their activity on the
\* only client that was ever created, the second after waiting on the guard.
C3_Witness ==
  /\ NextClient = 2
  /\ sdk[1].state = "ready"
  /\ retries >= 1
  /\ lastOp.op = "retry"
  /\ Len(pending) = 2
  /\ pending[1].op = "setActivity" /\ pending[2].op = "setActivity"
  /\ pending[1].client = 1 /\ pending[2].client = 1
  /\ pending[1].req # pending[2].req

\* ---- C4 ----------------------------------------------------------------
C4_Frame ==
  \A r \in ReqIds, id \in {<<"X">>, <<"Y">>} :
    ( /\ lastOp'.req = r
      /\ \/ lastOp'.op = "retry" /\ reqs[r].clientId = id
         \/ /\ lastOp'.op = "update"
            /\ ValidBody(lastOp'.body)
            /\ Trim(lastOp'.body.clientId) = id
      /\ discordConnected
      /\ rpc # NoClient
      /\ currentClientId = id ) =>
      /\ UNCHANGED <<rpc, currentClientId, discordConnected, isConnecting>>
      /\ sdk' = sdk
      /\ lastOp'.calls = <<"setActivity">>
      /\ reqs'[r].pc = "awaitSet"
      /\ reqs'[r].client = rpc

\* C4: when the relay is Ready and bound to the requested clientId, ensuring
\* the session resolves at once: no destroy, no new client, no login, and
\* rpc, currentClientId, discordConnected and isConnecting stay as they are.
C4_ReadySameIdentityIsNoOp == [][C4_Frame]_vars

\* An update whose clientId, once trimmed, is the bound identity went
\* straight to setActivity.
C4_Witness ==
  /\ lastOp.op = "update"
  /\ lastOp.body.clientId = <<" ", "X", " ">>
  /\ currentClientId = <<"X">>
  /\ discordConnected
  /\ lastOp.calls = <<"setActivity">>

\* ---- C5 ----------------------------------------------------------------
LoginOutcomes == {"error", "login rejected"}

C5_Outcome ==
  \A r \in ReqIds :
    /\ (lastOp'.op = "ready" /\ lastOp'.req = r) =>
         /\ discordConnected' /\ ~isConnecting'
         /\ currentClientId' = reqs[r].clientId
         /\ rpc' = reqs[r].client
         /\ sdk'[rpc'].state = "ready"
         /\ sdk'[rpc'].clientId = reqs[r].clientId
         /\ updateCheckInterval' = now + SweepInterval
    /\ (lastOp'.op \in LoginOutcomes /\ lastOp'.req = r) =>
         /\ ~discordConnected' /\ ~isConnecting'
         /\ LoginsInFlight' = {}
         /\ reqs[r].pc = "awaitLogin" /\ reqs'[r].pc = "free"
         /\ lastOp'.response.status = 503
    /\ \A id \in {<<"X">>, <<"Y">>} :
         ( /\ ~discordConnected /\ ~isConnecting
           /\ lastOp'.op = "update"
           /\ CallsConnect(r, id) ) =>
           /\ isConnecting'
           /\ reqs'[r].pc = "awaitLogin"
           /\ reqs'[r].client = rpc'
           /\ sdk'[rpc'] = [state |-> "loggingIn", clientId |-> id]
           /\ rpc' # rpc

\* C5: a login that succeeds leaves the relay Ready, bound to the requested
\* clientId, with the sweep interval restarted; a login that fails leaves it
\* neither connecting nor connected and answers the caller 503; and an
\* update that then arrives with a clientId starts a fresh login.
C5_LoginOutcomes == [][C5_Outcome]_vars

\* The first login failed and was answered; the next update started a
\* login of its own on a new client.
C5_Witness ==
  /\ lastOp.op = "update"
  /\ lastOp.calls = <<"destroy", "new", "login">>
  /\ served = 2
  /\ currentClientId = NoString
  /\ sdk[1].state = "destroyed"
  /\ sdk[2].state = "loggingIn"
  /\ Cardinality({r \in ReqIds : reqs[r].pc # "free"}) = 1

\* ---- C6 ----------------------------------------------------------------
\* A clientId that is absent, empty or only whitespace.
NoUsableClientId(clientId) ==
  clientId = NoString \/ \A i \in 1..Len(clientId) : clientId[i] = " "

NamesAnApp(body) ==
  /\ body.displayName \notin {NullTok, "", "null"}
  /\ body.packageName \notin {"unknown", "null"}

C6_Rejected ==
  ( /\ lastOp'.op = "update"
    /\ NamesAnApp(lastOp'.body)
    /\ NoUsableClientId(lastOp'.body.clientId) ) =>
    /\ lastOp'.response.status = 200
    /\ ~lastOp'.response.ok
    /\ lastOp'.response.text = "CLIENT_ID required"
    /\ lastOp'.calls = <<>>
    /\ sdk' = sdk
    /\ pending' = pending
    /\ reqs' = reqs
    /\ UNCHANGED <<rpc, currentClientId, discordConnected, isConnecting>>

\* C6: an update that names an app but carries no usable clientId (missing,
\* null, empty or blank) is answered success:false with status 200 and
\* makes no SDK call: no login under some default identity, no setActivity.
C6_ClientIdRequired == [][C6_Rejected]_vars

\* A blank clientId was rejected while a session for "X" was Ready.
C6_Witness ==
  /\ lastOp.op = "update"
  /\ lastOp.body.clientId = <<" ">>
  /\ lastOp.response = Json(FALSE, "CLIENT_ID required")
  /\ discordConnected
  /\ currentClientId = <<"X">>

\* ---- C7 ----------------------------------------------------------------
C7_Cleared ==
  ( /\ lastOp'.op = "update"
    /\ \/ lastOp'.body.displayName \in {NullTok, "null"}
       \/ lastOp'.body.packageName \in {"unknown", "null"} ) =>
    /\ lastOp'.response = Json(TRUE, "Cleared activity")
    /\ \A i \in 1..Len(lastOp'.calls) : lastOp'.calls[i] # "setActivity"
    /\ \A i \in 1..Len(pending') :
         pending'[i].op = "setActivity" => i <= Len(pending) /\ pending[i] = pending'[i]
    /\ sdk' = sdk
    /\ reqs' = reqs

\* C7: an update whose displayName is missing or "null", or whose
\* packageName is "unknown" or "null", is answered {success:true,
\* "Cleared activity"} and calls no setActivity, whatever the session state
\* and the clientId.
C7_NullAppClears == [][C7_Cleared]_vars

\* Such an update arrived with a clientId while a login was in flight.
C7_Witness ==
  /\ lastOp.op = "update"
  /\ lastOp.body.packageName = "unknown"
  /\ lastOp.body.clientId = <<"X">>
  /\ lastOp.response = Json(TRUE, "Cleared activity")
  /\ isConnecting

\* ---- C8 ----------------------------------------------------------------
\* The clearActivity call a /clear-presence handler makes for request r.
ClearCall(r) == SdkCall(rpc, "clearActivity", r, "clear", NullTok)

C8_AsStated ==
  lastOp'.op = "clear" =>
    /\ isCleared =>
         /\ lastOp'.calls = <<>>
         /\ pending' = pending
         /\ lastOp'.response.status = 200
         /\ lastOp'.response.ok
    /\ (discordConnected /\ ~isCleared) =>
         /\ lastOp'.calls = <<"clearActivity">>
         /\ lastUpdateTime' = NoTime

\* C8 (as stated): a /clear-presence received while isCleared is true makes
\* no SDK clearActivity call and still returns success; one received while
\* isCleared is false calls clearActivity exactly once and resets
\* lastUpdateTime.
C8_ClearIdempotent == [][C8_AsStated]_vars

C8_WhileConnected ==
  /\ lastOp'.op = "clear" =>
       /\ (discordConnected /\ isCleared) =>
            /\ lastOp'.calls = <<>>
            /\ pending' = pending
            /\ lastOp'.response = Json(TRUE, "Already cleared")
            /\ UNCHANGED <<isCleared, lastUpdateTime>>
       /\ (discordConnected /\ ~isCleared) =>
            /\ lastOp'.calls = <<"clearActivity">>
            /\ pending' = Append(pending, ClearCall(lastOp'.req))
            /\ isCleared'
            /\ lastUpdateTime' = NoTime
       /\ ~discordConnected =>
            /\ lastOp'.calls = <<>>
            /\ pending' = pending
            /\ lastOp'.response.status = 503
            /\ UNCHANGED <<isCleared, lastUpdateTime>>
  /\ (isCleared /\ ~isCleared') => lastOp'.op = "update"

\* C8 (amended): while the relay is connected, a /clear-presence received
\* with isCleared true makes no SDK call and answers {success:true,
\* "Already cleared"}; one received with isCleared false calls
\* clearActivity exactly once, sets isCleared and resets lastUpdateTime;
\* isCleared then stays up until an /update-presence naming an app arrives,
\* so consecutive clears on a connected relay make at most one call.  While
\* the relay is not connected a /clear-presence is answered 503, cleared or
\* not.
C8_ClearIdempotentWhileConnected == [][C8_WhileConnected]_vars

\* Two clears in a row on a connected relay: the second was answered
\* "Already cleared" while the call of the first is the only clearActivity
\* the relay has made.
C8_Witness ==
  /\ lastOp.op = "clear"
  /\ lastOp.response = Json(TRUE, "Already cleared")
  /\ discordConnected
  /\ Len(pending) = 1
  /\ pending[1].op = "clearActivity"
  /\ pending[1].origin = "clear"
  /\ reqs[pending[1].req].pc = "awaitClear"
  /\ displayed # NoActivity

\* ---- C9 ----------------------------------------------------------------
\* C9 (as stated): once a sweep tick has found the last update stale and
\* called clearActivity, later ticks make no further clearActivity call
\* until a new update arrives.
C9_SweepClearsOnce == sweepClears <= 1

\* The tick's test: Ready, an update on record, at least UPDATE_TIMEOUT old,
\* and not cleared.
SweepDue ==
  /\ discordConnected
  /\ lastUpdateTime # NoTime
  /\ now - lastUpdateTime >= UPDATE_TIMEOUT
  /\ ~isCleared

SweepAnswer(op) ==
  lastOp'.op = op /\ lastOp'.calls = <<"sweep", "clearActivity">>

C9_Sweep ==
  /\ (lastOp'.op = "sweep" /\ SweepDue) =>
       /\ lastOp'.calls = <<"clearActivity">>
       /\ pending' = Append(pending,
                       SdkCall(rpc, "clearActivity", NoReq, "sweep", NullTok))
       /\ sweepClears' = sweepClears + 1
       /\ UNCHANGED <<isCleared, lastUpdateTime>>
  /\ (lastOp'.op = "sweep" /\ ~SweepDue) =>
       /\ lastOp'.calls = <<>>
       /\ pending' = pending
       /\ UNCHANGED <<isCleared, lastUpdateTime, sweepClears>>
  /\ SweepAnswer("resolved") => (isCleared' /\ lastUpdateTime' = NoTime)
  /\ SweepAnswer("rejected") => UNCHANGED <<isCleared, lastUpdateTime>>
  /\ (isCleared /\ lastUpdateTime = NoTime /\ lastOp'.op # "update") =>
       /\ isCleared'
       /\ lastUpdateTime' = NoTime
       /\ sweepClears' = sweepClears

\* C9 (amended): a sweep tick that finds the relay Ready, the last update at
\* least 60000 ms old and isCleared false makes exactly one clearActivity
\* call and changes no flag itself; any other tick makes no call.  When
\* that call succeeds, isCleared becomes true and lastUpdateTime none, and
\* from then on no tick calls clearActivity until an /update-presence
\* arrives.  When the call fails the flags stay as they were, so the next
\* tick calls clearActivity again.
C9_SweepClearsOnceItSucceeds == [][C9_Sweep]_vars

\* The update was exactly 60000 ms old when a tick cleared it, the call
\* succeeded, and the tick after that made no call.
C9_Witness ==
  /\ lastOp.op = "sweep"
  /\ lastOp.calls = <<>>
  /\ sweepClears = 1
  /\ isCleared
  /\ lastUpdateTime = NoTime
  /\ discordConnected
  /\ displayed = NoActivity
  /\ pending = <<>>
  /\ now = UPDATE_TIMEOUT + SweepInterval

\* ---- C10 ---------------------------------------------------------------
\* Nothing is left to run but the sweep: no request is being handled, no SDK
\* call is unanswered and no login is under way.
Settled ==
  /\ \A r \in ReqIds : reqs[r].pc = "free"
  /\ pending = <<>>
  /\ ~isConnecting

\* C10: whenever the relay is Ready with an activity displayed and nothing
\* else left to run, the sweep is able to clear that activity once the
\* reporter stays silent: its interval is armed, the time of the last update
\* is on record and isCleared is false.  (From a settled state only a
\* request changes lastUpdateTime or isCleared, and a tick calls
\* clearActivity only when lastUpdateTime is set and isCleared is false; so
\* where this fails the activity is never cleared.)
C10_SweepEventuallyClears ==
  (Settled /\ discordConnected /\ displayed # NoActivity) =>
    /\ updateCheckInterval # NoTime
    /\ lastUpdateTime # NoTime
    /\ ~isCleared

\* The state the invariant above excludes: an activity is displayed, nothing
\* is left to run, and the sweep has nothing to go by.
Unswept ==
  /\ Settled
  /\ discordConnected
  /\ displayed # NoActivity
  /\ (lastUpdateTime = NoTime \/ isCleared)

\* Once there, the relay stays there for as long as no request arrives: the
\* activity stays displayed whatever time passes and however often the
\* sweep ticks.
UnsweptForGood ==
  [][(Unswept /\ lastOp'.op \notin {"update", "clear"}) =>
       (Unswept' /\ displayed' = displayed)]_vars

\* ---- C11 ---------------------------------------------------------------
\* currentClientId is written by 'ready' only, and never reset: it is set
\* exactly when some session has been ready.
EverConnected == currentClientId # NoString

C11_AsStated ==
  lastOp'.op = "clear" =>
    (lastOp'.response.status = 503 <=> ~EverConnected)

\* C11 (as stated): /clear-presence answers 503 only if the relay has never
\* been connected; once a connection has been established it is not
\* refused.
C11_Clear503OnlyIfNeverConnected == [][C11_AsStated]_vars

C11_Refusal ==
  /\ lastOp'.op = "clear" =>
       /\ lastOp'.response.status = 503 <=> ~discordConnected
       /\ ~EverConnected => lastOp'.response.status = 503
       /\ discordConnected =>
            \/ lastOp'.response = Json(TRUE, "Already cleared")
            \/ /\ lastOp'.response = NoResponse
               /\ lastOp'.calls = <<"clearActivity">>
               /\ reqs'[lastOp'.req].pc = "awaitClear"
  /\ (lastOp'.op = "resolved" /\ lastOp'.calls = <<"clear", "clearActivity">>)
       => lastOp'.response = Json(TRUE, "Presence cleared")
  /\ (lastOp'.op = "rejected" /\ lastOp'.calls = <<"clear", "clearActivity">>)
       => lastOp'.response.status = 500

\* C11 (amended): /clear-presence answers 503 exactly when discordConnected
\* is false: before the first session is ready, and also while a session
\* is being replaced after an identity switch.  While connected it no-ops
\* with {success:true} when already cleared and otherwise calls
\* clearActivity, answering {success:true} when the call succeeds and 500
\* when it fails.
C11_Clear503WhileNotConnected == [][C11_Refusal]_vars

\* A session was ready for one identity, a login for another is in flight,
\* and a /clear-presence was answered 503.
C11_Witness ==
  /\ lastOp.op = "clear"
  /\ lastOp.response.status = 503
  /\ EverConnected
  /\ isConnecting
  /\ sdk[rpc].clientId # currentClientId

\* ---- C12 ---------------------------------------------------------------
\* A step in which call t reaches DesktopRPC.setActivity for package p with
\* the transport on and a CLIENT_ID stored: at the start of a call that
\* has no other package to clear first, or after that clear has settled.
CallsSetActivity(t, p) ==
  /\ isConnected
  /\ clientIds[p] # NoString
  /\ lastOp'.req = t
  /\ \/ /\ lastOp'.op = "tick"
        /\ lastOp'.body.packageName = p
        /\ lastOp'.body.displayName \notin {"", "null"}
        /\ enabledApps[p] = "on"
        /\ lastUpdatedPackage \in {NullTok, p}
     \/ /\ lastOp'.op = "cleared"
        /\ ticks[t].pc = "clearThenUpdate"
        /\ ticks[t].packageName = p

\* The last successful send was for p and started less than 2000 ms ago.
RecentlySent(p) ==
  lastPackageName = p /\ lastUpdate # NoTime /\ now - lastUpdate < 2000

C12_Step ==
  /\ \A t \in TickIds, p \in Packages :
       CallsSetActivity(t, p) =>
         IF RecentlySent(p)
           THEN lastOp'.calls = <<>> /\ ticks'[t].pc = "free"
           ELSE /\ lastOp'.calls = <<"update">>
                /\ ticks'[t].pc = "updating"
                /\ ticks'[t].packageName = p
                /\ ticks'[t].start = now
  /\ \A t \in TickIds :
       (lastOp'.op = "sent" /\ lastOp'.req = t) =>
         (lastUpdate' = ticks[t].start /\ lastPackageName' = ticks[t].packageName)
  /\ lastOp'.op # "sent" => UNCHANGED <<lastUpdate, lastPackageName>>

\* C12: a setActivity call for a package sends no /update-presence exactly
\* when the last successful send was for the same package and started less
\* than 2000 ms before; a call for another package is sent at once however
\* little time has passed.  Only a send that succeeded is remembered (its
\* package and the time the call started), so the throttle looks at the
\* immediately preceding successful send and nothing else.
C12_ThrottleSamePackage == [][C12_Step]_vars

\* A send for A succeeded, a call for A 1000 ms later was skipped, and a
\* call for B at that same moment is on its way.
C12_Witness ==
  /\ lastOp.op = "tick"
  /\ lastOp.body.packageName = "A"
  /\ lastOp.calls = <<>>
  /\ isConnected
  /\ enabledApps["A"] = "on"
  /\ lastPackageName = "A"
  /\ now - lastUpdate = 1000
  /\ \E t \in TickIds : ticks[t].pc = "updating" /\ ticks[t].packageName = "B"
                        /\ ticks[t].start = now

\* ---- C13 ---------------------------------------------------------------
\* A step that starts a call which resolves no foreground application.
TickResolvesNone ==
  /\ lastOp'.op = "tick"
  /\ MobileIsNullApp(lastOp'.body.displayName, lastOp'.body.packageName)

\* An earlier tick that resolved none has sent its clear, and the request
\* has not settled yet.
ClearInFlight ==
  \E t \in TickIds : /\ ticks[t].pc = "clearThenReset"
                     /\ ticks[t].packageName \in {"null", "unknown"}

C13_AsStated ==
  /\ (TickResolvesNone /\ lastUpdatedPackage # NullTok /\ isConnected
        /\ ~ClearInFlight)
       => lastOp'.calls = <<"clear">>
  /\ (TickResolvesNone /\ isConnected /\ ClearInFlight)
       => lastOp'.calls = <<>>

\* C13 (as stated): with a package tracked, a tick that resolves no
\* application sends exactly one clear, and the next tick that resolves
\* none sends nothing.
C13_ClearOnceOnNone == [][C13_AsStated]_vars

C13_Step ==
  /\ TickResolvesNone =>
       /\ UNCHANGED lastUpdatedPackage
       /\ IF lastUpdatedPackage # NullTok /\ isConnected
            THEN /\ lastOp'.calls = <<"clear">>
                 /\ ticks'[lastOp'.req].pc = "clearThenReset"
                 /\ ticks'[lastOp'.req].sent = <<"clear">>
            ELSE /\ lastOp'.calls = <<>>
                 /\ ticks'[lastOp'.req].pc = "free"
  /\ \A t \in TickIds :
       (lastOp'.op = "cleared" /\ lastOp'.req = t
          /\ ticks[t].pc = "clearThenReset") =>
         /\ lastUpdatedPackage' = NullTok
         /\ lastOp'.calls = <<>>
         /\ ticks'[t].pc = "free"

\* C13 (amended): with a package tracked and the transport connected, a
\* tick that resolves no application sends exactly one clear; the tracked
\* package is reset to none when that request has settled, not before.  A
\* tick resolving none that starts after the reset sends nothing; one that
\* starts while the clear is still in flight finds the package still
\* tracked and sends a clear of its own.
C13_ClearOncePerSettledTick == [][C13_Step]_vars

\* A was reported, a tick resolving none cleared it and reset the tracked
\* package, and the next tick resolving none sent nothing.
C13_Witness ==
  /\ lastOp.op = "tick"
  /\ MobileIsNullApp(lastOp.body.displayName, lastOp.body.packageName)
  /\ lastOp.calls = <<>>
  /\ isConnected
  /\ lastUpdatedPackage = NullTok
  /\ lastPackageName = "A"
  /\ started = 3
  /\ \A t \in TickIds : ticks[t].pc = "free"

\* ---- C14 ---------------------------------------------------------------
\* A step that starts a call which resolves application p.
TickResolves(t, p) ==
  /\ lastOp'.op = "tick"
  /\ lastOp'.req = t
  /\ lastOp'.body.packageName = p
  /\ lastOp'.body.displayName \notin {"", "null"}

\* p is configured and switched on: it has a CLIENT_ID and its toggle is on.
Enabled(p) == clientIds[p] # NoString /\ enabledApps[p] = "on"

\* Another application than p is tracked as active.
OtherTracked(p) == lastUpdatedPackage # NullTok /\ lastUpdatedPackage # p

\* The step in which the clear sent for a switch to p has settled.
SwitchClearSettled(t, p) ==
  /\ lastOp'.op = "cleared"
  /\ lastOp'.req = t
  /\ ticks[t].pc = "clearThenUpdate"
  /\ ticks[t].packageName = p

C14_SwitchStart ==
  \A t \in TickIds, p \in Packages :
    (TickResolves(t, p) /\ OtherTracked(p) /\ isConnected) =>
      /\ lastOp'.calls = <<"clear">>
      /\ ticks'[t].sent = <<"clear">>
      /\ ticks'[t].packageName = p
      /\ ticks'[t].pc = (IF Enabled(p) THEN "clearThenUpdate"
                                       ELSE "clearThenReset")

C14_NoUpdateForDisabled ==
  \A t \in TickIds :
    (lastOp'.req = t /\ ticks[t].pc = "clearThenReset") =>
      (lastOp'.calls = <<>> /\ ticks'[t].pc = "free")

C14_AsStated ==
  /\ C14_SwitchStart
  /\ C14_NoUpdateForDisabled
  /\ \A t \in TickIds, p \in Packages :
       (SwitchClearSettled(t, p) /\ isConnected /\ clientIds[p] # NoString) =>
         /\ lastOp'.calls = <<"update">>
         /\ ticks'[t].sent = <<"clear", "update">>

\* C14 (as stated): a tick that resolves an enabled application while
\* another one is tracked sends a clear and then an update for the new
\* application, in that order; a tick that resolves a disabled application
\* while one is tracked sends a clear and no update.
C14_ClearThenUpdate == [][C14_AsStated]_vars

C14_Step ==
  /\ C14_SwitchStart
  /\ C14_NoUpdateForDisabled
  /\ \A t \in TickIds, p \in Packages :
       SwitchClearSettled(t, p) =>
         IF isConnected /\ clientIds[p] # NoString /\ ~RecentlySent(p)
           THEN /\ lastOp'.calls = <<"update">>
                /\ ticks'[t].sent = <<"clear", "update">>
                /\ ticks'[t].pc = "updating"
                /\ ticks'[t].packageName = p
           ELSE /\ lastOp'.calls = <<>>
                /\ ticks'[t].pc = "free"

\* C14 (amended): with the transport connected, a tick that resolves an
\* enabled application B while another application is tracked sends a
\* clear and, when that request has settled, an update for B, unless the
\* last successful send was for B and started less than 2000 ms before (or
\* B's CLIENT_ID or the transport has gone meanwhile): then only the clear
\* is sent.  A tick that resolves a disabled application while one is
\* tracked sends a clear and no update.
C14_ClearThenUpdateUnlessThrottled == [][C14_Step]_vars

\* A is tracked, a tick resolved the enabled B, its clear has settled and
\* its update for B is on the way.
C14_Witness ==
  /\ lastOp.op = "cleared"
  /\ lastUpdatedPackage = "A"
  /\ ticks[lastOp.req].pc = "updating"
  /\ ticks[lastOp.req].packageName = "B"
  /\ ticks[lastOp.req].sent = <<"clear", "update">>

\* ---- C15 ---------------------------------------------------------------
\* The step changes the tracked active package to an application.
TrackedSetTo(p) == lastUpdatedPackage' = p /\ lastUpdatedPackage # p

\* The step in which the update request of call t for p was answered 2xx.
SendSucceeded(t, p) ==
  /\ lastOp'.op = "sent"
  /\ lastOp'.req = t
  /\ ticks[t].packageName = p

\* C15 (as stated): the tracked active package is set to the resolved
\* application only after an update for it was successfully sent; a
\* throttled, failed or skipped send leaves it unchanged.
C15_TrackedOnlyAfterSuccess ==
  [][\A p \in Packages :
       TrackedSetTo(p) => \E t \in TickIds : SendSucceeded(t, p)]_vars

\* The step in which call t ends its attempt to update for p: the request
\* settled (either way), or none was made because the send was throttled
\* or the CLIENT_ID had gone.
UpdateAttemptEnds(t, p) ==
  \/ /\ lastOp'.op \in {"sent", "send failed"}
     /\ lastOp'.req = t
     /\ ticks[t].packageName = p
  \/ /\ SwitchClearSettled(t, p)
     /\ isConnected
     /\ lastOp'.calls = <<>>
  \/ /\ TickResolves(t, p)
     /\ Enabled(p)
     /\ isConnected
     /\ lastOp'.calls = <<>>

C15_Step ==
  \A p \in Packages :
    /\ TrackedSetTo(p) => \E t \in TickIds : UpdateAttemptEnds(t, p)
    /\ \A t \in TickIds : UpdateAttemptEnds(t, p) => lastUpdatedPackage' = p

\* C15 (amended): the tracked active package is set to the resolved
\* application when, with the transport connected, the call's attempt to
\* update for it ends, whether the request succeeded, failed, or was not
\* made because it was throttled; it is set at no other time.
C15_TrackedAfterAttempt == [][C15_Step]_vars

\* A is tracked although the only send for it failed.
C15_Witness ==
  /\ lastOp.op = "send failed"
  /\ lastUpdatedPackage = "A"
  /\ lastPackageName = NullTok
  /\ lastUpdate = NoTime

\* ---- C16 ---------------------------------------------------------------
\* The step in which call t sends an /update-presence request for p.
SendsUpdate(t, p) ==
  /\ lastOp'.req = t
  /\ lastOp'.op \in {"tick", "cleared"}
  /\ lastOp'.calls = <<"update">>
  /\ ticks'[t].packageName = p

C16_Step ==
  \A t \in TickIds, p \in Packages :
    /\ SendsUpdate(t, p) => Enabled(p)
    /\ (TickResolves(t, p) /\ ~Enabled(p) /\ isConnected) =>
         lastOp'.calls = (IF lastUpdatedPackage # NullTok THEN <<"clear">>
                                                          ELSE <<>>)

\* C16: no poll tick sends an /update-presence request for an application
\* that has no CLIENT_ID or is not switched on; for such an application
\* the tick sends a clear if any application was tracked as active and
\* otherwise sends nothing.
C16_NoUpdateUnlessEnabled == [][C16_Step]_vars

\* The part of C16 that the code keeps: the requests of a call are chosen
\* from the configuration as the call read it when it started.
C16_AtLookup ==
  [][\A t \in TickIds, p \in Packages :
       (TickResolves(t, p) /\ ~Enabled(p)) =>
         /\ lastOp'.calls \in {<<>>, <<"clear">>}
         /\ ticks'[t].pc \in {"free", "clearThenReset"}]_vars

\* ---- C17 ---------------------------------------------------------------
C17_Step ==
  \A p \in Packages :
    \* switched on only with a CLIENT_ID
    /\ enabledApps'[p] = "on" => clientIds'[p] # NoString
    \* removing the CLIENT_ID switches the application off
    /\ (clientIds[p] # NoString /\ clientIds'[p] = NoString) =>
         enabledApps'[p] = "unset"
    \* adding a CLIENT_ID does not switch it on
    /\ (clientIds[p] = NoString /\ clientIds'[p] # NoString) =>
         enabledApps'[p] # "on"
    \* only the toggle switches it on
    /\ (enabledApps[p] # "on" /\ enabledApps'[p] = "on") =>
         (lastOp'.op = "toggle" /\ clientIds[p] # NoString)

\* C17: after any sequence of saveCustomName and toggleAppEnabled, an
\* application is switched on only if it has a non-empty CLIENT_ID;
\* removing the CLIENT_ID switches it off, and adding one again leaves it
\* off until toggleAppEnabled switches it on.
C17_EnabledNeedsClientId == [][C17_Step]_vars

\* A was switched on (it got tracked), lost its CLIENT_ID, got one again
\* by the last save, and is still off.
C17_Witness ==
  /\ lastOp.op = "save"
  /\ lastUpdatedPackage = "A"
  /\ clientIds["A"] # NoString
  /\ enabledApps["A"] = "unset"

\* ---- C18 ---------------------------------------------------------------
\* Every MOVE_TO_FOREGROUND of the window is followed, later in the window,
\* by a MOVE_TO_BACKGROUND of the same package.
EveryForegroundBackgrounded(evs) ==
  \A i \in 1..Len(evs) :
    evs[i].eventType = "MOVE_TO_FOREGROUND" =>
      \E j \in (i + 1)..Len(evs) :
        /\ evs[j].eventType = "MOVE_TO_BACKGROUND"
        /\ evs[j].packageName = evs[i].packageName

\* The call has resolved after replaying the events of the window.
Replayed == resolved # NoResult /\ ~eventsThrow

\* The answer was taken from the events, not from the usage stats.
ByEvents ==
  resolved.method \in {"events-state", "events-state-pkg",
                       "events-recent", "events-recent-pkg"}

\* C18 (as stated): when every ToForeground(a) of the window is later
\* followed by a ToBackground(a), the resolver returns none or the result
\* of the usage-stats fallback, never an application taken from the events.
C18_NeverBackgrounded ==
  (Replayed /\ EveryForegroundBackgrounded(events)) => ~ByEvents

\* The MOVE_TO_FOREGROUND events of applications (not the reporter itself,
\* not a system package), by index.
AppForegrounds(evs) ==
  {i \in 1..Len(evs) :
     /\ evs[i].eventType = "MOVE_TO_FOREGROUND"
     /\ evs[i].packageName # NoPackage
     /\ evs[i].packageName # myPackageName
     /\ ~StartsWith(evs[i].packageName, <<"android">>)
     /\ ~StartsWith(evs[i].packageName, <<"com", "android">>)
     /\ evs[i].packageName \notin systemPackages}

\* The first of those with the latest time stamp.
MostRecentForeground(evs) ==
  CHOOSE i \in AppForegrounds(evs) :
    \A j \in AppForegrounds(evs) :
      /\ evs[j].timeStamp <= evs[i].timeStamp
      /\ j < i => evs[j].timeStamp < evs[i].timeStamp

\* C18 (amended): when every ToForeground(a) of the window is later
\* followed by a ToBackground(a), the resolver returns the application of
\* the most recent ToForeground event of the window, although that
\* application has been backgrounded; only when the window holds no
\* ToForeground event of an application does it return none or the result
\* of the usage-stats fallback.
C18_MostRecentWhenAllBackgrounded ==
  (Replayed /\ EveryForegroundBackgrounded(events)) =>
    IF AppForegrounds(events) # {}
      THEN /\ resolved.packageName =
                events[MostRecentForeground(events)].packageName
           /\ resolved.method \in {"events-recent", "events-recent-pkg"}
      ELSE ~ByEvents

\* A was foregrounded and then backgrounded, nothing else happened, and
\* the resolver answers A.
C18_Witness ==
  /\ Replayed
  /\ Len(events) = 2
  /\ events[1].eventType = "MOVE_TO_FOREGROUND"
  /\ events[1].packageName = AppA
  /\ events[2].eventType = "MOVE_TO_BACKGROUND"
  /\ events[2].packageName = AppA
  /\ resolved.packageName = AppA

\* ---- C19 ---------------------------------------------------------------
\* The applications still foregrounded at the end of the window: those with
\* a MOVE_TO_FOREGROUND that no later MOVE_TO_BACKGROUND of theirs follows.
StillForegrounded(evs) ==
  {evs[i].packageName : i \in
     {i \in AppForegrounds(evs) :
        \A j \in (i + 1)..Len(evs) :
          evs[j].packageName = evs[i].packageName =>
            evs[j].eventType # "MOVE_TO_BACKGROUND"}}

\* The time stamp of the last MOVE_TO_FOREGROUND of p in the window.
ForegroundTimestamp(evs, p) ==
  LET last == CHOOSE i \in AppForegrounds(evs) :
                /\ evs[i].packageName = p
                /\ \A j \in AppForegrounds(evs) :
                     evs[j].packageName = p => j <= i
  IN evs[last].timeStamp

\* [ToForeground(A, 0), ToForeground(B, 10), ToBackground(A, 5)], the times
\* counted from the start of the window
C19_Example ==
  << [eventType |-> "MOVE_TO_FOREGROUND", packageName |-> AppA,
      timeStamp |-> WindowStart],
     [eventType |-> "MOVE_TO_FOREGROUND", packageName |-> AppB,
      timeStamp |-> WindowStart + 10],
     [eventType |-> "MOVE_TO_BACKGROUND", packageName |-> AppA,
      timeStamp |-> WindowStart + 5] >>

\* C19: after the replay of the window's events (ToForeground sets or
\* refreshes the package's entry, ToBackground removes it), if any package
\* is still tracked as foregrounded the resolver returns the tracked package
\* with the maximum foreground time stamp; for
\* [ToForeground(A,0), ToForeground(B,10), ToBackground(A,5)] it returns B.
C19_MaxForegroundTimestamp ==
  Replayed =>
    /\ {appStates[i].key : i \in 1..Len(appStates)} = StillForegrounded(events)
    /\ \A i \in 1..Len(appStates) :
         appStates[i].value = ForegroundTimestamp(events, appStates[i].key)
    /\ StillForegrounded(events) # {} =>
         /\ resolved.packageName \in StillForegrounded(events)
         /\ resolved.method \in {"events-state", "events-state-pkg"}
         /\ \A q \in StillForegrounded(events) :
              ForegroundTimestamp(events, q) <=
                ForegroundTimestamp(events, resolved.packageName)
    /\ events = C19_Example => resolved.packageName = AppB

\* A and B are both still foregrounded, B later than A, and the resolver
\* answers B.
C19_Witness ==
  /\ Replayed
  /\ StillForegrounded(events) = {AppA, AppB}
  /\ ForegroundTimestamp(events, AppA) < ForegroundTimestamp(events, AppB)
  /\ resolved.packageName = AppB

\* ---- C20 ---------------------------------------------------------------
\* The packages the resolver must never answer: the reporter itself, names
\* that start with "android." or "com.android.", and the fixed system set.
C20_Excluded(pkg) ==
  \/ pkg = <<"com", "johnuberbacher", "androiddiscordrichpresence">>
  \/ (Len(pkg) > 1 /\ pkg[1] = "android")
  \/ (Len(pkg) > 2 /\ pkg[1] = "com" /\ pkg[2] = "android")
  \/ pkg \in { <<"com", "android", "systemui">>,
               <<"com", "google", "android", "gms">>,
               <<"com", "google", "android", "googlequicksearchbox">>,
               <<"com", "google", "android", "apps", "photos">>,
               <<"com", "google", "android", "apps", "docs">>,
               <<"com", "google", "android", "apps", "maps">> }

\* C20: the resolved foreground application is never the reporting
\* application itself nor a system package (null, prefix "android.", prefix
\* "com.android.", or a member of the fixed system set), whether it was
\* taken from the events or from the usage stats.
C20_NeverSelfOrSystem ==
  resolved # NoResult =>
    /\ resolved.packageName = NoPackage <=> resolved.appName = NoPackage
    /\ resolved.packageName # NoPackage =>
         /\ ~C20_Excluded(resolved.packageName)
         /\ \/ /\ ByEvents
               /\ \E i \in 1..Len(events) :
                    /\ events[i].eventType = "MOVE_TO_FOREGROUND"
                    /\ events[i].packageName = resolved.packageName
            \/ /\ resolved.method \in {"stats", "stats-pkg"}
               /\ \E k \in 1..Len(stats) :
                    stats[k].packageName = resolved.packageName

\* The reporter itself was foregrounded last in the window and leads the
\* usage stats, and the resolver answers the application behind it in
\* the stats.
C20_Witness ==
  /\ Replayed
  /\ events # <<>>
  /\ events[Len(events)].eventType = "MOVE_TO_FOREGROUND"
  /\ events[Len(events)].packageName = myPackageName
  /\ Len(stats) = 2
  /\ stats[1].packageName = myPackageName
  /\ stats[1].lastTimeUsed > stats[2].lastTimeUsed
  /\ resolved.packageName = stats[2].packageName
  /\ resolved.method \in {"stats", "stats-pkg"}

\* ---- C21 ---------------------------------------------------------------
\* What the poll loop reads in the resolved string (App.js:141-143).
ParsedAppName == Field(ResultParts(resolved), 1, "null")
ParsedPackageName == Field(ResultParts(resolved), 2, "unknown")

\* C21: an exception of the usage-statistics collaborator is caught.  When
\* the event query throws, the stats query is asked and decides the
\* answer; when the stats query throws, the promise still resolves, to a
\* string in which the poll loop reads no foreground application.
C21_ExceptionsCaught ==
  resolved # NoResult =>
    /\ resolved.method = "unavailable" =>
         MobileIsNullApp(ParsedAppName, ParsedPackageName)
    /\ eventsThrow =>
         /\ appStates = <<>>
         /\ lastForegroundPackage = NoPackage
         /\ \/ resolved.method = "unavailable"
            \/ resolved = FromStats(stats, "none")

\* The event query threw, the stats query threw as well, and the call has
\* resolved.
C21_Witness ==
  /\ eventsThrow
  /\ events # <<>>
  /\ resolved.method = "unavailable"

\* ---- C22 ---------------------------------------------------------------
\* C22: getForegroundAppName always resolves to one string of exactly four
\* pipe-delimited fields appName|packageName|method|debugInfo, with "null"
\* for unknown fields, on every path.
C22_FourFields ==
  resolved # NoResult =>
    /\ Len(ResultParts(resolved)) = 4
    /\ resolved.packageName = NoPackage =>
         (ResultParts(resolved)[1] = "null" /\ ResultParts(resolved)[2] = "null")

\* What the code resolves to.  When the usage-stats service throws outside
\* the event query the string is the bare "null" (one field).  Otherwise
\* it is appName|packageName|method|debugInfo, with "null" for appName and
\* packageName when no application was found; the application label is
\* copied as it is, so a label that holds n pipe characters makes 4 + n
\* fields.
C22_FieldsOfResult ==
  resolved # NoResult =>
    LET parts == ResultParts(resolved)
        label == getAppNameFromPackage(resolved.packageName)
    IN IF resolved.method = "unavailable" THEN parts = <<"null">>
       ELSE IF resolved.packageName = NoPackage
         THEN /\ Len(parts) = 4
              /\ parts[1] = "null" /\ parts[2] = "null"
              /\ parts[3] = resolved.method
         ELSE /\ Len(parts) = 3 + (IF label = NoPackage THEN 1 ELSE Len(label))
              /\ parts[Len(parts) - 2] = Dotted(resolved.packageName)
              /\ parts[Len(parts) - 1] = resolved.method
              /\ SubSeq(parts, 1, Len(parts) - 3) =
                   (IF label = NoPackage THEN <<Dotted(resolved.packageName)>>
                                         ELSE label)

\* C is in the foreground; its label "Chat|Pro" makes five fields, and the
\* poll loop reads the package name "Pro".
C22_LabelWithPipe ==
  /\ Replayed
  /\ resolved.packageName = AppC
  /\ Len(ResultParts(resolved)) = 5
  /\ ParsedAppName = "Chat"
  /\ ParsedPackageName = "Pro"

\* ---- C23 ---------------------------------------------------------------
\* The last turn was the answer to a request, and the request failed.
FailedAnswer(kind) ==
  lastOp.op \in {kind \o " non2xx", kind \o " network"}

\* C23: on the mobile transport a network failure, a timeout or a non-2xx
\* response during setActivity or clearActivity is swallowed, the call
\* resolves; a failure of the health probe testConnection is handed to the
\* caller as a rejection.
C23_SendSwallowedProbePropagated ==
  /\ settled.method \in {"setActivity", "clearActivity"} =>
       settled.outcome = "resolved"
  /\ FailedAnswer("send") =>
       /\ settled.method \in {"setActivity", "clearActivity"}
       /\ rpcCalls[lastOp.req] = FreeCall
  /\ FailedAnswer("health") =>
       /\ settled.method \in {"initialize", "testConnection"}
       /\ settled.outcome = "rejected"
  /\ lastOp.op = "health ok" => settled.outcome = "resolved"

\* An /update-presence request of setActivity failed on the network and
\* the call resolved.
C23_Witness ==
  /\ lastOp.op = "send network"
  /\ settled = [method |-> "setActivity", outcome |-> "resolved"]

\* ---- C24 ---------------------------------------------------------------
\* The last turn was a setActivity call that sent a request.
SetActivitySent == lastOp.op = "setActivity" /\ lastOp.calls # <<>>

\* Its arguments name no application.
UnknownState ==
  \/ lastOp.body.displayName \in {"", "null"}
  \/ lastOp.body.packageName \in {"unknown", "null"}

C25_Step ==
  /\ lastOp'.op = "initialize" =>
       LET address == lastOp'.body.clientId
       IN IF Trim(address) = <<>>
            THEN \* a blank address: rejected, nothing changed, no probe
                 /\ settled' = [method |-> "initialize", outcome |-> "rejected"]
                 /\ lastOp'.calls = <<>>
                 /\ UNCHANGED <<desktopIP, isEnabled, savedIP, lastUpdate,
                                lastPackageName, rpcCalls>>
            ELSE \* exactly one http:// in front
                 /\ Head(desktopIP') = "http://"
                 /\ Len(desktopIP') > 1
                 /\ desktopIP'[2] \notin {"http://", "https://"}
                 \* normalising again changes nothing
                 /\ Normalize(desktopIP') = desktopIP'
                 /\ isEnabled'
                 \* the address is persisted
                 /\ savedIP' = Trim(address)
                 \* one probe
                 /\ lastOp'.calls = <<"health">>
                 /\ rpcCalls'[lastOp'.req].request = "/health"
                 \* and nothing settled by this turn
                 /\ rpcCalls'[lastOp'.req].method = "initialize"
                 /\ settled' = NoOutcome
  \* the call ends when its probe does, successfully only if the probe
  \* succeeded
  /\ \A c \in TransportCallIds :
       (rpcCalls[c].method = "initialize" /\ rpcCalls'[c] # rpcCalls[c]) =>
         /\ lastOp'.req = c
         /\ lastOp'.op \in {"health ok", "health non2xx", "health network"}
         /\ settled' = [method |-> "initialize",
                        outcome |-> IF lastOp'.op = "health ok"
                                      THEN "resolved" ELSE "rejected"]

\* C25: initialize(address) turns a bare host:port or an http(s) URL into a
\* base URL that starts with exactly one "http://" (normalising it again
\* changes nothing), persists the address, makes one /health probe and
\* reports success only if that probe succeeds; a blank address is
\* rejected without changing state.
C25_Initialize == [][C25_Step]_vars

\* initialize("https://host:3000") has succeeded: the address is stored
\* and the base URL is http://host:3000.
C25_Witness ==
  /\ lastOp.op = "health ok"
  /\ settled = [method |-> "initialize", outcome |-> "resolved"]
  /\ savedIP = <<"https://", "host:3000">>
  /\ desktopIP = <<"http://", "host:3000">>

\* ---- C26 ---------------------------------------------------------------
\* The index of the last MOVE_TO_FOREGROUND of p in the window.
LastForegroundIndex(evs, p) ==
  CHOOSE i \in AppForegrounds(evs) :
    /\ evs[i].packageName = p
    /\ \A j \in AppForegrounds(evs) : evs[j].packageName = p => j <= i

\* The index of the event that put p among the tracked packages: its first
\* MOVE_TO_FOREGROUND after its last MOVE_TO_BACKGROUND.
TrackedSinceIndex(evs, p) ==
  CHOOSE i \in AppForegrounds(evs) :
    /\ evs[i].packageName = p
    /\ \A j \in i..Len(evs) :
         evs[j].packageName = p => evs[j].eventType # "MOVE_TO_BACKGROUND"
    /\ \A k \in AppForegrounds(evs) :
         (k < i /\ evs[k].packageName = p) =>
           \E j \in (k + 1)..(i - 1) :
             /\ evs[j].packageName = p
             /\ evs[j].eventType = "MOVE_TO_BACKGROUND"

\* The still-foregrounded packages that share the maximum time stamp.
TiedAtMaximum(evs) ==
  {p \in StillForegrounded(evs) :
     \A q \in StillForegrounded(evs) :
       ForegroundTimestamp(evs, q) <= ForegroundTimestamp(evs, p)}

\* C26: when several packages still tracked as foregrounded share the
\* maximum time stamp, the resolver returns the one whose ToForeground
\* event came last in replay order (last write wins for equal time stamps).
C26_LastWriteWins ==
  (Replayed /\ StillForegrounded(events) # {}) =>
    /\ resolved.packageName \in TiedAtMaximum(events)
    /\ \A q \in TiedAtMaximum(events) :
         LastForegroundIndex(events, q) <=
           LastForegroundIndex(events, resolved.packageName)

\* What maxByOrNull over the insertion-ordered map gives instead: of the
\* packages that share the maximum, the one that has been tracked longest.
C26_FirstTrackedWins ==
  (Replayed /\ StillForegrounded(events) # {}) =>
    /\ resolved.packageName \in TiedAtMaximum(events)
    /\ \A q \in TiedAtMaximum(events) :
         TrackedSinceIndex(events, resolved.packageName) <=
           TrackedSinceIndex(events, q)

\* A and then B came to the foreground with the same time stamp, neither
\* was backgrounded, and the resolver answers A.
C26_Tie ==
  /\ Replayed
  /\ Len(events) = 2
  /\ events[1].eventType = "MOVE_TO_FOREGROUND"
  /\ events[1].packageName = AppA
  /\ events[2].eventType = "MOVE_TO_FOREGROUND"
  /\ events[2].packageName = AppB
  /\ events[1].timeStamp = events[2].timeStamp
  /\ resolved.packageName = AppA

\* ---- C27 ---------------------------------------------------------------
\* The usage-stats entries of applications, by index, and those of them
\* used within the last 5000 ms.
AppStats == {k \in 1..Len(stats) : ~C20_Excluded(stats[k].packageName)}
RecentAppStats == {k \in AppStats : stats[k].lastTimeUsed >= currentTime - 5000}

\* C27: the resolver applies its fallbacks in a fixed order: a
\* still-foregrounded package (events-state) wins over the most recent
\* ToForeground event of the window regardless of backgrounding
\* (events-recent), which wins over usage stats; the stats path is taken
\* only when the event path produced no application, prefers the package
\* with the greatest lastTimeUsed within the last 5000 ms, and widens to the
\* full lookback window only if none is that recent.
C27_FallbackOrder ==
  resolved # NoResult =>
    LET still == ~eventsThrow /\ StillForegrounded(events) # {}
        recent == ~eventsThrow /\ AppForegrounds(events) # {}
        pool == IF RecentAppStats # {} THEN RecentAppStats ELSE AppStats
    IN /\ still =>
            /\ resolved.method \in {"events-state", "events-state-pkg"}
            /\ resolved.packageName \in StillForegrounded(events)
       /\ (~still /\ recent) =>
            /\ resolved.method \in {"events-recent", "events-recent-pkg"}
            /\ resolved.packageName =
                 events[MostRecentForeground(events)].packageName
       /\ recent => stats = <<>>
       /\ (~recent /\ AppStats # {}) =>
            /\ resolved.method \in {"stats", "stats-pkg"}
            /\ \E k \in pool :
                 /\ stats[k].packageName = resolved.packageName
                 /\ \A j \in pool :
                      stats[j].lastTimeUsed <= stats[k].lastTimeUsed
       /\ resolved.method \in {"stats", "stats-pkg"} =>
            ~recent /\ AppStats # {}

\* A was foregrounded and backgrounded, then B was foregrounded at an
\* earlier time stamp and is still tracked: the answer is B by
\* events-state, although A holds the most recent ToForeground.
C27_Witness ==
  /\ Replayed
  /\ Len(events) = 3
  /\ events[1] = [eventType |-> "MOVE_TO_FOREGROUND", packageName |-> AppA,
                  timeStamp |-> WindowStart + 10]
  /\ events[2] = [eventType |-> "MOVE_TO_BACKGROUND", packageName |-> AppA,
                  timeStamp |-> WindowStart + 5]
  /\ events[3] = [eventType |-> "MOVE_TO_FOREGROUND", packageName |-> AppB,
                  timeStamp |-> WindowStart]
  /\ lastForegroundPackage = AppA
  /\ resolved.packageName = AppB
  /\ resolved.method = "events-state-pkg"

\* The events path found nothing, no usage-stats entry is recent, and the
\* answer is the most recently used application of the whole window.
C27_Widened ==
  /\ Replayed
  /\ AppForegrounds(events) = {}
  /\ Len(stats) = 2
  /\ RecentAppStats = {}
  /\ AppStats = {2}
  /\ resolved.packageName = stats[2].packageName
  /\ resolved.method \in {"stats", "stats-pkg"}

\* ---- C28 ---------------------------------------------------------------
\* The /update-presence request of call c has failed in this step: a
\* response that is not 2xx, a network error, or the 3 s abort.
UpdateSendFails(c) ==
  /\ rpcCalls[c].request = "/update-presence"
  /\ rpcCalls'[c] # rpcCalls[c]
  /\ lastOp'.req = c
  /\ lastOp'.op \in {"send non2xx", "send network"}

C28_Step ==
  \A c \in TransportCallIds :
    UpdateSendFails(c) =>
      /\ lastUpdate' = lastUpdate
      /\ lastPackageName' = lastPackageName
      \* unless another send has succeeded meanwhile, a call for the same
      \* application made now is let through
      /\ ~Throttled(rpcCalls[c].packageName, rpcCalls[c].start) =>
           ~ /\ lastPackageName' = rpcCalls[c].packageName
             /\ lastUpdate' # NoTime
             /\ now' - lastUpdate' < 2000

\* C28: a failed or timed-out /update-presence send leaves the mobile
\* throttle state (lastUpdate, lastPackageName) unchanged, so the next poll
\* tick for the same application is not throttled and retries the send
\* immediately.
C28_FailedSendKeepsThrottle == [][C28_Step]_vars

\* The send for A has just failed, nothing is remembered by the throttle,
\* and the transport is still on: the next setActivity for A sends.
C28_Witness ==
  /\ lastOp.op = "send network"
  /\ lastOp.body.packageName = "A"
  /\ lastUpdate = NoTime
  /\ lastPackageName = NullTok
  /\ isConnected
  /\ ~Throttled("A", now)

\* ---- C29 ---------------------------------------------------------------
\* The step in which the update request of call q is answered 2xx while
\* call t, started no earlier and less than 2000 ms later, has a request
\* for the same application in flight.
SentTwiceWithinThrottle(q, t) ==
  /\ q # t
  /\ lastOp'.op = "sent"
  /\ lastOp'.req = q
  /\ ticks[q].pc = "updating"
  /\ ticks[t].pc = "updating"
  /\ ticks[t].packageName = ticks[q].packageName
  /\ ticks[t].start >= ticks[q].start
  /\ ticks[t].start - ticks[q].start < 2000

\* C29 (as stated): the mobile throttle state (lastUpdate, lastPackageName)
\* is written by a single writer, the poll loop, so no two writers ever
\* observe or update it concurrently and the 2000 ms same-application
\* throttle holds even when poll ticks overlap.
C29_ThrottleHoldsWhenOverlapping ==
  [][\A q \in TickIds, t \in TickIds : ~SentTwiceWithinThrottle(q, t)]_vars

C29_Step ==
  \* the state is written in the turn that completes a successful send,
  \* with the start time and the application of the call that sent
  /\ (lastUpdate' # lastUpdate \/ lastPackageName' # lastPackageName) =>
       \E q \in TickIds :
         /\ lastOp'.op = "sent"
         /\ lastOp'.req = q
         /\ ticks[q].pc = "updating"
         /\ lastUpdate' = ticks[q].start
         /\ lastPackageName' = ticks[q].packageName
  \* it is read in the turn that sends, so it stops the calls that start
  \* after that write
  /\ \A t \in TickIds, p \in Packages :
       SendsUpdate(t, p) =>
         ~ /\ lastPackageName = p
           /\ lastUpdate # NoTime
           /\ now - lastUpdate < 2000

\* C29 (amended): the throttle state is read when a call is about to send
\* and written when its request has succeeded, each within one turn of the
\* event loop, so it is never observed half-written; the 2000 ms
\* same-application throttle holds against sends whose success has been
\* recorded, not against a send that is still in flight, so overlapping
\* poll ticks can each send an update for the same application.
C29_ThrottleAgainstRecordedSends == [][C29_Step]_vars

\* Two overlapping calls have each sent an update for A less than 2000 ms
\* apart; the first has succeeded and the second is still in flight.
C29_Witness ==
  /\ lastOp.op = "sent"
  /\ lastPackageName = "A"
  /\ \E t \in TickIds :
       /\ ticks[t].pc = "updating"
       /\ ticks[t].packageName = "A"
       /\ ticks[t].start >= lastUpdate
       /\ ticks[t].start - lastUpdate < 2000

\* ---- C30 ---------------------------------------------------------------
\* The step hands the SDK a clearActivity call made by the sweep.
SweepCallsClear ==
  /\ Len(pending') > Len(pending)
  /\ pending'[Len(pending')].op = "clearActivity"
  /\ pending'[Len(pending')].origin = "sweep"

C30_Step ==
  /\ SweepCallsClear =>
       /\ lastOp'.op = "sweep"
       /\ discordConnected
       /\ lastUpdateTime # NoTime
       /\ ~isCleared
       /\ now - lastUpdateTime >= 60000
       /\ pending'[Len(pending')].client = rpc
  \* lastUpdateTime is the time the last /update-presence naming an
  \* application was received
  /\ (/\ lastOp'.op = "update"
      /\ ~IsNullApp(lastOp'.body.displayName, lastOp'.body.packageName)) =>
       lastUpdateTime' = now'
  /\ (lastUpdateTime' # lastUpdateTime /\ lastUpdateTime' # NoTime) =>
       lastOp'.op = "update"
  \* so a tick less than 60000 ms after it calls nothing
  /\ (/\ lastOp'.op = "sweep"
      /\ lastUpdateTime # NoTime
      /\ now - lastUpdateTime < 60000) =>
       (pending' = pending /\ lastOp'.calls = <<>>)

\* C30: the staleness sweep never calls SDK clearActivity unless the relay
\* is connected, lastUpdateTime is set, the relay is not already cleared,
\* and at least 60000 ms have passed since the last /update-presence was
\* received; an activity refreshed within the last 60000 ms is never
\* cleared by the sweep.
C30_SweepOnlyWhenStale == [][C30_Step]_vars

\* A sweep tick has just run on a Ready relay whose last update is a whole
\* sweep interval old, and it left the activity displayed.
C30_Witness ==
  /\ lastOp.op = "sweep"
  /\ lastOp.calls = <<>>
  /\ discordConnected
  /\ ~isCleared
  /\ lastUpdateTime # NoTime
  /\ now - lastUpdateTime >= SweepInterval
  /\ now - lastUpdateTime < 60000
  /\ displayed # NoActivity
  /\ pending = <<>>

\* ---- C31 ---------------------------------------------------------------
\* The step hands the SDK a setActivity call made for request r.
IssuesSetActivity(r) ==
  /\ Len(pending') > Len(pending)
  /\ pending'[Len(pending')].op = "setActivity"
  /\ pending'[Len(pending')].req = r

\* The clientId request r asked for: it is in the body when the request is
\* being received, and kept with the request while it waits.
OwnClientId(r) ==
  IF lastOp'.op = "update" THEN Trim(lastOp'.body.clientId)
                           ELSE reqs[r].clientId

C31_Step ==
  \A r \in ReqIds :
    IssuesSetActivity(r) =>
      LET call == pending'[Len(pending')] IN
      /\ lastOp'.op \in {"update", "ready", "retry"}
      /\ lastOp'.req = r
      /\ call.client = rpc'
      /\ call.client # NoClient
      /\ sdk'[call.client].state = "ready"
      /\ sdk'[call.client].clientId = OwnClientId(r)
      /\ discordConnected'
      /\ currentClientId' = OwnClientId(r)

\* C31: every SDK setActivity call made by /update-presence is issued on a
\* connection that is Ready and bound to that request's own clientId, for
\* every interleaving of concurrent /update-presence requests carrying
\* different clientIds (including requests waiting on the connecting guard).
C31_SetActivityOnOwnIdentity == [][C31_Step]_vars

\* A request for Y that had to wait on the guard while X was logging in has
\* its setActivity issued on a second connection, Ready and bound to Y,
\* after the connection for X was destroyed.
C31_Witness ==
  /\ lastOp.op = "ready"
  /\ lastOp.calls = <<"setActivity">>
  /\ retries > 0
  /\ rpc = 2
  /\ sdk[1].state = "destroyed"
  /\ sdk[2] = [state |-> "ready", clientId |-> <<"Y">>]
  /\ currentClientId = <<"Y">>
  /\ pending # <<>>
  /\ pending[Len(pending)].op = "setActivity"
  /\ pending[Len(pending)].client = 2

\* ---- C32 ---------------------------------------------------------------
\* C32: on the relay, isCleared is true only when the SDK's most recent
\* presence operation was a successful clear: no reachable state has
\* isCleared = true while an activity set by a setActivity call is still
\* displayed, for every interleaving of /update-presence, /clear-presence
\* and the sweep's asynchronous clear completion, including SDK clear
\* failures.  (Read with every request answered and every SDK call settled,
\* so that a clear that is merely on its way does not count.)
C32_ClearedMeansNothingDisplayed ==
  (isCleared /\ Settled) => displayed = NoActivity

\* The clearActivity call of a /clear-presence was rejected by the SDK: the
\* request was answered 500, the activity is still displayed, and isCleared
\* stays true.
C32_ClearFailed ==
  /\ lastOp.op = "rejected"
  /\ lastOp.calls = <<"clear", "clearActivity">>
  /\ lastOp.response.status = 500
  /\ Settled
  /\ isCleared
  /\ lastUpdateTime = NoTime
  /\ discordConnected
  /\ displayed # NoActivity

\* The sweep's clear completed after a new update had arrived: the update's
\* activity is displayed, isCleared is true and lastUpdateTime is none,
\* with no /clear-presence received at all.
C32_SweepOvertaken ==
  /\ lastOp.op = "resolved"
  /\ lastOp.calls = <<"update", "setActivity">>
  /\ served = 2
  /\ Settled
  /\ isCleared
  /\ lastUpdateTime = NoTime
  /\ discordConnected
  /\ displayed # NoActivity

\* ---- C33 ---------------------------------------------------------------
\* No call of the poll loop is in flight.
NoTickInFlight == \A t \in TickIds : ticks[t].pc = "free"

\* C33: for every interleaving of overlapping poll ticks, whenever no tick
\* is in flight and the tracked active package (lastUpdatedPackage) is
\* none, no /update-presence request has been delivered by a tick after
\* the most recent /clear-presence request: the mobile side never believes
\* presence is cleared while its last delivered message set an activity.
C33_ClearedBeliefMatchesLastMessage ==
  (NoTickInFlight /\ lastUpdatedPackage = NullTok) => ~wire.delivered

\* The reporter is idle and tracks no application, yet the last request it
\* sent was an update for A, which the relay accepted.
C33_BelievesCleared ==
  /\ NoTickInFlight
  /\ lastUpdatedPackage = NullTok
  /\ wire.delivered
  /\ lastOp.op = "cleared"
  /\ lastPackageName = "A"
  /\ isConnected

\* ---- C34 ---------------------------------------------------------------
\* disable() is called on a transport that is enabled and has an address.
DisablesConnected ==
  /\ lastOp'.op = "disable"
  /\ isEnabled
  /\ desktopIP # NoString

\* C34: calling disable() on an enabled mobile transport with an address
\* set results in a /clear-presence request being sent to the relay, so
\* that disconnecting removes the displayed presence.
C34_DisableSendsClear ==
  [][DisablesConnected =>
       \E i \in 1..Len(lastOp'.calls) : lastOp'.calls[i] = "clear"]_vars

\* What disable() does: it switches the transport off and sends nothing.
C34_DisableSendsNothing ==
  [][DisablesConnected =>
       /\ ~isEnabled'
       /\ lastOp'.calls = <<>>
       /\ UNCHANGED <<desktopIP, rpcCalls, ticks>>]_vars

\* The transport was switched off right after an update for A had been
\* accepted by the relay; no request went out.
C34_DisabledWithPresenceShown ==
  /\ lastOp.op = "disable"
  /\ lastOp.calls = <<>>
  /\ ~isEnabled
  /\ desktopIP # NoString
  /\ lastPackageName = "A"
  /\ \A c \in TransportCallIds : rpcCalls[c] = FreeCall

\* ---- C35 ---------------------------------------------------------------
\* The /health probe of the initialize call c has failed in this step.
InitializeProbeFails(c) ==
  /\ rpcCalls[c].method = "initialize"
  /\ rpcCalls'[c] # rpcCalls[c]
  /\ lastOp'.op \in {"health non2xx", "health network"}

C35_Step ==
  \A c \in TransportCallIds :
    InitializeProbeFails(c) =>
      /\ settled' = [method |-> "initialize", outcome |-> "rejected"]
      \* nothing is undone
      /\ UNCHANGED <<isEnabled, desktopIP, savedIP>>
      /\ desktopIP' # NoString
      \* with no other call in between, the transport is left as
      \* initialize set it: enabled, with the address it was given
      /\ (lastOp.op = "initialize" /\ lastOp.req = c) =>
           /\ isEnabled'
           /\ desktopIP' = <<"http://">> \o Tail(desktopIP')
           /\ savedIP' = Trim(lastOp.body.clientId)

\* C35: if the health probe inside initialize(address) fails, initialize
\* rejects but the transport is left enabled with the address set
\* (isConnected is true), so later poll ticks still attempt sends to that
\* address; the error path does not restore the previous isEnabled and
\* desktopIP values.
C35_FailedInitializeStaysEnabled == [][C35_Step]_vars

\* The first call ever made was initialize("host:3000"); its probe failed,
\* and the transport, off and without an address before, is connected.
C35_Witness ==
  /\ rpcStarted = 1
  /\ lastOp.op = "health network"
  /\ settled = [method |-> "initialize", outcome |-> "rejected"]
  /\ isEnabled
  /\ desktopIP = <<"http://", "host:3000">>
  /\ isEnabled /\ desktopIP # NoString

\* After that, a setActivity call sends its update to the address.
C35_SendsAfterFailedInitialize ==
  /\ rpcStarted = 2
  /\ lastOp.op = "setActivity"
  /\ lastOp.calls = <<"update">>
  /\ savedIP # NoString
  /\ lastUpdate = NoTime
  /\ \E c \in TransportCallIds :
       /\ rpcCalls[c].request = "/update-presence"
       /\ \A d \in TransportCallIds : d # c => rpcCalls[d] = FreeCall

\* ---- C36 ---------------------------------------------------------------
\* C36: testClientId reports success (clientIdTestResult = 'success') only
\* if the test update for the entered clientId was actually delivered to
\* and accepted by the relay; a throttled send, a transport failure or a
\* relay error response yields the error result.
C36_SuccessOnlyIfAccepted ==
  clientIdTest.result = "success" => clientIdTest.update = "ok"

\* What the code does: a test that got as far as its setActivity call never
\* shows the error result, whatever became of the update.
C36_NeverError == clientIdTest.result # "error"

\* Success is shown for an update that the throttle dropped, ...
C36_SuccessThrottled ==
  clientIdTest.result = "success" /\ clientIdTest.update = "throttled"

\* ... that the relay answered with an error status, ...
C36_SuccessRelayError ==
  clientIdTest.result = "success" /\ clientIdTest.update = "non2xx"

\* ... and that never reached the relay.
C36_SuccessNetworkError ==
  clientIdTest.result = "success" /\ clientIdTest.update = "network"

\* ---- C37 ---------------------------------------------------------------
\* The step answered an /update-presence request with "CLIENT_ID required".
RejectsForClientId ==
  /\ lastOp'.op = "update"
  /\ lastOp'.response = Json(FALSE, "CLIENT_ID required")

C37_Step ==
  RejectsForClientId =>
    /\ lastOp'.calls = <<>>
    /\ UNCHANGED <<rpc, currentClientId, discordConnected, isConnecting,
                   sdk, pending, displayed>>
    /\ lastUpdateTime' = now
    /\ isCleared' = FALSE
    /\ sweepClears' = 0

\* C37: an /update-presence request rejected for a missing clientId makes no
\* SDK call and leaves rpc, currentClientId and discordConnected unchanged,
\* but it still sets lastUpdateTime to the receipt time and resets isCleared
\* to false, so it postpones the staleness sweep and re-arms the next clear.
C37_RejectedUpdateStillCounts == [][C37_Step]_vars

\* A request without clientId was rejected on a Ready session that shows
\* nothing, after the first sweep tick: the relay again holds a receipt
\* time and is no longer cleared.
C37_Witness ==
  /\ lastOp.op = "update"
  /\ lastOp.response = Json(FALSE, "CLIENT_ID required")
  /\ lastOp.body.clientId = NoString
  /\ discordConnected /\ rpc # NoClient
  /\ displayed = NoActivity
  /\ pending = <<>>
  /\ now >= SweepInterval
  /\ lastUpdateTime = now
  /\ ~isCleared

\* ---- C38 ---------------------------------------------------------------
\* C38: every connectToDiscord call eventually resolves or rejects,
\* including calls waiting on the connecting guard, provided every SDK login
\* attempt eventually reaches ready or fails and the 500 ms retry timers
\* keep firing (no caller waits forever while other callers switch
\* identities).
C38_EveryCallSettles ==
  \A r \in ReqIds : (reqs[r].pc # "free") ~> (reqs[r].pc = "free")

\* What holds: the call that took the guard settles, ...
C38_LoginCallSettles ==
  \A r \in ReqIds : (reqs[r].pc = "awaitLogin") ~> (reqs[r].pc = "free")

\* ... the guard is released again and again, ...
C38_GuardReleased == []<>(~isConnecting)

\* ... and each waiting call keeps looking.
C38_WaiterRetries ==
  \A r \in ReqIds :
    (reqs[r].pc = "waitRetry") ~> (lastOp.op = "retry" /\ lastOp.req = r)

\* A call for X waits on the guard while a login for Y is in flight whose
\* caller found a session for X ready.
C38_WaitingOnSwitch ==
  \E r, q \in ReqIds :
    /\ reqs[r].pc = "waitRetry" /\ reqs[r].clientId = <<"X">>
    /\ reqs[q].pc = "awaitLogin" /\ reqs[q].clientId = <<"Y">>
    /\ currentClientId = <<"X">>
    /\ lastOp.op = "retry" /\ lastOp.req = r

\* ---- C39 ---------------------------------------------------------------
\* C39: on the relay, isConnecting and discordConnected are never both
\* true: starting a login marks any existing connection as not connected,
\* and the ready handler sets discordConnected and clears isConnecting in
\* one step, after any sequence of connects, failures and identity switches.
C39_NotConnectingWhileConnected == ~(isConnecting /\ discordConnected)

\* A login for another identity has just been started on a session that
\* was Ready: the old client is destroyed and the relay is connecting, not
\* connected.
C39_Witness ==
  /\ lastOp.calls = <<"destroy", "new", "login">>
  /\ currentClientId = <<"X">>
  /\ rpc # NoClient /\ sdk[rpc] = [state |-> "loggingIn", clientId |-> <<"Y">>]
  /\ \E c \in ClientIds : sdk[c].state = "destroyed"
  /\ isConnecting
  /\ ~discordConnected

\* The login of the switch became ready: connected, not connecting.
C39_SwitchReady ==
  /\ lastOp.op = "ready"
  /\ \E c \in ClientIds : sdk[c].state = "destroyed"
  /\ currentClientId = <<"Y">>
  /\ discordConnected
  /\ ~isConnecting

====
